---- MODULE Spec2Model ----
(***************************************************************************)
(* Safety-stock allocation solvers of webapp/extracted_inventory_functions *)
(* (max_demand_compute, dynamic_programming_for_SSA, tabu_search_for_SSA). *)
(*                                                                         *)
(* Costs are held in fixed point: one unit is 1/100 of a cost unit, the    *)
(* square root is floor(1000*sqrt(t)), and z is Z100/100.                  *)
(***************************************************************************)
EXTENDS Integers, Sequences, FiniteSets, TLC

VARIABLES
    (* arguments of the call *)
    n, G, ProcTime, LTLB, LTUB, mu, sigma, h,
    (* dynamic_programming_for_SSA and max_demand_compute *)
    pc, Lmax, MaxDemand, SafetyCost,
    c, f, fmin, g, gmin, minLI, minL,
    Searched, order, reverse_order, Lstar, LIstar, NRT, total_cost,
    (* tabu_search_for_SSA: arguments; the locals and the global generators
       of a call (ts), and of a second call with the same arguments (ts2) *)
    tpc, max_iter, TLLB0, TLUB0, seed, ts, ts2,
    (* InventoryOptimizationService: position in the method called (spc) and
       its arguments and locals (sv) *)
    spc, sv

argVars == <<n, G, ProcTime, LTLB, LTUB, mu, sigma, h>>
covVars == <<Lmax, MaxDemand, SafetyCost>>
tblVars == <<c, f, fmin, g, gmin, minLI, minL>>
solVars == <<Searched, order, reverse_order, Lstar, LIstar, NRT, total_cost>>
dpVars  == <<pc, covVars, tblVars, solVars>>
targVars == <<max_iter, TLLB0, TLUB0, seed>>
tabuVars == <<tpc, targVars, ts, ts2>>
svcVars == <<spc, sv>>
vars    == <<argVars, dpVars, tabuVars, svcVars>>

(* ------------------------------ bounds -------------------------------- *)
MaxN      == 3      \* nodes of the network
MaxProc   == 1      \* largest processing time drawn
MaxLT     == 1      \* largest guaranteed lead time bound drawn
MaxH      == 1      \* largest holding cost drawn
SqrtMax   == 24     \* largest argument of the square-root table
MaxIter   == 2      \* largest max_iter drawn
MaxTL     == 2      \* largest tabu tenure bound drawn

(* ------------------------- numeric representation --------------------- *)
Z100      == 165            \* z = 1.65
SqrtScale == 1000
BigSigma  == 10
MuVal     == 100
BigM      == 99999900       \* 999999.0 in units of 1/100
Infinity  == 2000000000     \* 1.e10000 (float inf): absorbs every addition

SqrtTable ==
    [t \in 0..SqrtMax |->
        CHOOSE r \in 0..(SqrtScale * 5) :
            /\ r * r <= t * SqrtScale * SqrtScale
            /\ (r + 1) * (r + 1) > t * SqrtScale * SqrtScale]

\* np.sqrt(t), scaled by SqrtScale (no cost of the code takes the root of a
\* negative number: the tabu search clamps NRT at 0, the DP indexes a table)
Sqrt(t) == IF t \in DOMAIN SqrtTable THEN SqrtTable[t] ELSE 0

\* h*z*sigma*sqrt(t), in units of 1/100
Cost(hh, ss, t) == (hh * Z100 * ss * Sqrt(t)) \div SqrtScale

\* float addition with inf
Plus(x, y) == IF x = Infinity \/ y = Infinity THEN Infinity ELSE x + y

(* ------------------------------ dictionaries -------------------------- *)
\* defaultdict(lambda: Infinity)[key]
Get(d, key) == IF key \in DOMAIN d THEN d[key] ELSE Infinity
\* defaultdict(lambda: 0)[key]
Get0(d, key) == IF key \in DOMAIN d THEN d[key] ELSE 0
\* d[key] = v
Put(d, key, v) == [x \in (DOMAIN d) \cup {key} |-> IF x = key THEN v ELSE d[x]]

(* -------------------------------- graph ------------------------------- *)
Nodes == 0..(n - 1)
Predecessors(v) == {i \in Nodes : <<i, v>> \in G}
Successors(v)   == {j \in Nodes : <<v, j>> \in G}
Neighbors(v)    == Predecessors(v) \cup Successors(v)

\* the nodes joined to S by the undirected edges U
RECURSIVE Reach(_, _)
Reach(U, S) ==
    LET T == S \cup {v \in Nodes : \E w \in S : {v, w} \in U}
    IN  IF T = S THEN S ELSE Reach(U, T)

\* the edges of G.to_undirected()
UndirectedEdges == {{e[1], e[2]} : e \in G}

\* a tree test that forgets to count the edges
IsTreeConnectedOnly == Reach(UndirectedEdges, {0}) = Nodes

\* nx.is_tree(G.to_undirected()): n - 1 edges and connected
IsTree ==
    /\ Cardinality(UndirectedEdges) = n - 1
    /\ Reach(UndirectedEdges, {0}) = Nodes

RECURSIVE Kahn(_, _)
Kahn(done, up) ==
    LET seen  == {done[x] : x \in 1..Len(done)}
        avail == {v \in Nodes \ seen :
                     (IF up THEN Successors(v) ELSE Predecessors(v)) \subseteq seen}
    IN  IF avail = {} THEN done
        ELSE Kahn(Append(done, CHOOSE v \in avail : \A w \in avail : v <= w), up)

\* G.down_order(): sources first
down_order == Kahn(<<>>, FALSE)
\* G.up_order(): demand nodes first
up_order == Kahn(<<>>, TRUE)

\* nx.is_directed_acyclic_graph(G)
IsDAG == Len(down_order) = n

Max2(x, y) == IF x >= y THEN x ELSE y
Min2(x, y) == IF x <= y THEN x ELSE y

RECURSIVE SetMax(_, _)
SetMax(S, base) ==
    IF S = {} THEN base
    ELSE LET x == CHOOSE y \in S : TRUE IN SetMax(S \ {x}, Max2(base, x))

RECURSIVE SetMin(_, _)
SetMin(S, base) ==
    IF S = {} THEN base
    ELSE LET x == CHOOSE y \in S : TRUE IN SetMin(S \ {x}, Min2(base, x))

(* --------------------------- max_demand_compute ----------------------- *)
RECURSIVE MaxNRTLoop(_, _, _)
MaxNRTLoop(ord, pos, acc) ==
    IF pos > Len(ord) THEN acc
    ELSE LET v == ord[pos]
             MaxGLT == SetMax({Min2(acc.MaxNRT[w], LTUB[w]) : w \in Predecessors(v)}, 0)
         IN  IF Predecessors(v) = {}
             THEN MaxNRTLoop(ord, pos + 1,
                    [acc EXCEPT !.MaxNRT[v] = ProcTime[v]])
             ELSE MaxNRTLoop(ord, pos + 1,
                    [MaxNRT |-> [acc.MaxNRT EXCEPT ![v] = MaxGLT + ProcTime[v]],
                     Lmax   |-> Max2(acc.Lmax, MaxGLT + ProcTime[v])])

MaxNRTResult == MaxNRTLoop(down_order, 1, [MaxNRT |-> [v \in Nodes |-> 0], Lmax |-> 0])

LmaxOverAllNodes == SetMax({MaxNRTResult.MaxNRT[v] : v \in Nodes}, 0) + 1

\* Lmax as returned: the largest MaxNRT of a node with predecessors, plus 1
LmaxCompute == MaxNRTResult.Lmax + 1

SafetyCostCompute ==
    [i \in Nodes |-> [t \in 0..(LmaxCompute - 1) |-> Cost(h[i], sigma[i], t)]]

MaxDemandCompute ==
    [i \in Nodes |-> [t \in 0..(LmaxCompute - 1) |->
        100 * mu[i] * t + (Z100 * sigma[i] * Sqrt(t)) \div SqrtScale]]

(* ---------------------- dynamic_programming_for_SSA ------------------- *)
Feasible(k, L, LI) ==
    /\ LI + ProcTime[k] - L >= 0
    /\ LI + ProcTime[k] - L < Lmax

RECURSIVE SumDict(_, _, _)
SumDict(d, S, x) ==
    IF S = {} THEN 0
    ELSE LET i == CHOOSE y \in S : TRUE
         IN  Plus(Get(d, <<i, x>>), SumDict(d, S \ {i}, x))

\* sumCost of c[k, L, LI], with S the nodes searched so far (k among them)
SumCost(k, L, LI, S) ==
    LET base  == SafetyCost[k][LI + ProcTime[k] - L]
        withP == Plus(base, SumDict(fmin, Predecessors(k) \cap S, LI))
        succS == Successors(k) \cap S
    IN  IF succS = {} THEN withP
        ELSE IF L < Lmax THEN Plus(withP, SumDict(gmin, succS, L))
        ELSE BigM

CKeys(k) ==
    {<<k, L, LI>> : L \in LTLB[k]..LTUB[k], LI \in 0..(Lmax - 1)}

\* the table c after node k is combined
CLoop(k, S) ==
    LET new == {key \in CKeys(k) : Feasible(k, key[2], key[3])}
    IN  [key \in (DOMAIN c) \cup new |->
            IF key \in new THEN SumCost(k, key[2], key[3], S) ELSE c[key]]

\* f[k, L] and minLI[k, L]: inner loop over LI
RECURSIVE FLoopLI(_, _, _, _, _)
FLoopLI(cc, k, L, LI, acc) ==
    IF LI >= Lmax THEN acc
    ELSE FLoopLI(cc, k, L, LI + 1,
            IF Feasible(k, L, LI) /\ Get(cc, <<k, L, LI>>) < acc.minCost
            THEN [minCost |-> Get(cc, <<k, L, LI>>),
                  minLI   |-> Put(acc.minLI, <<k, L>>, LI)]
            ELSE acc)

RECURSIVE FLoop(_, _, _, _)
FLoop(cc, k, L, st) ==
    IF L > LTUB[k] THEN st
    ELSE LET r == FLoopLI(cc, k, L, 0, [minCost |-> BigM, minLI |-> st.minLI])
         IN  FLoop(cc, k, L + 1,
                [f |-> Put(st.f, <<k, L>>, r.minCost), minLI |-> r.minLI])

\* fmin[k, L]: running minimum of f over x < L
RECURSIVE FminLoopX(_, _, _, _, _)
FminLoopX(ff, k, L, x, acc) ==
    IF x >= L THEN acc
    ELSE FminLoopX(ff, k, L, x + 1,
            IF /\ Get0(acc.minLI, <<k, x>>) + ProcTime[k] - x >= 0
               /\ Get(ff, <<k, x>>) < acc.minCost
            THEN [minCost |-> Get(ff, <<k, x>>),
                  minLI   |-> Put(acc.minLI, <<k, L>>, Get0(acc.minLI, <<k, x>>))]
            ELSE acc)

RECURSIVE FminLoop(_, _, _, _)
FminLoop(ff, k, L, st) ==
    IF L >= Lmax THEN st
    ELSE LET r == FminLoopX(ff, k, L, LTLB[k],
                    [minCost |-> Get(ff, <<k, L>>), minLI |-> st.minLI])
         IN  FminLoop(ff, k, L + 1,
                [fmin |-> Put(st.fmin, <<k, L>>, r.minCost), minLI |-> r.minLI])

\* g[k, LI] and minL[k, LI]: inner loop over L
RECURSIVE GLoopL(_, _, _, _, _)
GLoopL(cc, k, LI, L, acc) ==
    IF L > LTUB[k] THEN acc
    ELSE GLoopL(cc, k, LI, L + 1,
            IF Feasible(k, L, LI) /\ Get(cc, <<k, L, LI>>) < acc.minCost
            THEN [minCost |-> Get(cc, <<k, L, LI>>),
                  minL    |-> Put(acc.minL, <<k, LI>>, L)]
            ELSE acc)

RECURSIVE GLoop(_, _, _, _)
GLoop(cc, k, LI, st) ==
    IF LI >= Lmax THEN st
    ELSE LET r == GLoopL(cc, k, LI, LTLB[k], [minCost |-> BigM, minL |-> st.minL])
         IN  GLoop(cc, k, LI + 1,
                [g |-> Put(st.g, <<k, LI>>, r.minCost), minL |-> r.minL])

\* gmin[k, LI]: running minimum of g over x >= LI
RECURSIVE GminLoopX(_, _, _, _, _)
GminLoopX(gg, k, LI, x, acc) ==
    IF x >= Lmax THEN acc
    ELSE GminLoopX(gg, k, LI, x + 1,
            IF /\ x + ProcTime[k] - Get0(acc.minL, <<k, x>>) >= 0
               /\ Get(gg, <<k, x>>) < acc.minCost
            THEN [minCost |-> Get(gg, <<k, x>>),
                  minL    |-> Put(acc.minL, <<k, LI>>, Get0(acc.minL, <<k, x>>))]
            ELSE acc)

RECURSIVE GminLoop(_, _, _, _)
GminLoop(gg, k, LI, st) ==
    IF LI >= Lmax THEN st
    ELSE IF Get(gg, <<k, LI>>) < BigM
         THEN LET r == GminLoopX(gg, k, LI, LI, [minCost |-> BigM, minL |-> st.minL])
              IN  GminLoop(gg, k, LI + 1,
                     [gmin |-> Put(st.gmin, <<k, LI>>, r.minCost), minL |-> r.minL])
         ELSE GminLoop(gg, k, LI + 1,
                     [gmin |-> Put(st.gmin, <<k, LI>>, BigM), minL |-> st.minL])

\* one scan of the backward pass: the first strict minimum of c[i, L, LI]
\* over the pairs <<L, LI>> in loop order
RECURSIVE Scan(_, _, _, _)
Scan(i, pairs, pos, acc) ==
    IF pos > Len(pairs) THEN acc
    ELSE LET L  == pairs[pos][1]
             LI == pairs[pos][2]
         IN  Scan(i, pairs, pos + 1,
                IF Feasible(i, L, LI) /\ Get(c, <<i, L, LI>>) < acc.minCost
                THEN [minCost |-> Get(c, <<i, L, LI>>), L |-> L, LI |-> LI]
                ELSE acc)

NumL(i) == IF LTUB[i] >= LTLB[i] THEN LTUB[i] - LTLB[i] + 1 ELSE 0

\* for L in range(LTLB[i], LTUB[i] + 1), LI fixed
PairsFixedLI(i, LI) == [x \in 1..NumL(i) |-> <<LTLB[i] + x - 1, LI>>]
\* for LI in range(Lmax), L fixed
PairsFixedL(i, L) == [x \in 1..Lmax |-> <<L, x - 1>>]
\* for LI in range(Lmax): for L in range(LTLB[i], LTUB[i] + 1)
PairsAll(i) ==
    [x \in 1..(Lmax * NumL(i)) |->
        <<LTLB[i] + ((x - 1) % NumL(i)), (x - 1) \div NumL(i)>>]

\* the choice of (Lstar[i], LIstar[i]) in the backward pass
Choose(i) ==
    LET start == [minCost |-> BigM, L |-> Lstar[i], LI |-> LIstar[i]]
    IN  IF LIstar[i] >= 0 THEN Scan(i, PairsFixedLI(i, LIstar[i]), 1, start)
        ELSE IF Lstar[i] >= 0 THEN Scan(i, PairsFixedL(i, Lstar[i]), 1, start)
        ELSE Scan(i, PairsAll(i), 1, start)

\* numpy index SafetyCost[i, t]: a negative index counts from the end
IndexOK(t) == t >= -Lmax /\ t < Lmax
Wrap(t) == IF t < 0 THEN Lmax + t ELSE t

RECURSIVE TotalCost(_, _)
TotalCost(i, nrt) ==
    IF i >= n THEN 0
    ELSE SafetyCost[i][Wrap(nrt[i])] + TotalCost(i + 1, nrt)

(* ------------------------------ operations ---------------------------- *)
\* lines 833-834: the two assertions
DPAssert ==
    /\ pc = "call"
    /\ pc' = IF IsTree /\ IsDAG THEN "tables" ELSE "AssertionError"
    /\ UNCHANGED <<svcVars, tabuVars, argVars, covVars, tblVars, solVars>>

\* line 837: max_demand_compute
DPMaxDemand ==
    /\ pc = "tables"
    /\ Lmax' = LmaxCompute
    /\ MaxDemand' = MaxDemandCompute
    /\ SafetyCost' = SafetyCostCompute
    /\ pc' = "forward"
    /\ UNCHANGED <<svcVars, tabuVars, argVars, tblVars, solVars>>

\* G.dp_order(): the nodes that may be folded next (at most one neighbour left)
DpNext == {k \in Nodes \ Searched : Cardinality(Neighbors(k) \ Searched) <= 1}

\* lines 852-911: one node of the forward pass
DPForward(k) ==
    /\ pc = "forward"
    /\ k \in DpNext
    /\ LET S  == Searched \cup {k}
           c1 == CLoop(k, S)
           r1 == FLoop(c1, k, LTLB[k], [f |-> f, minLI |-> minLI])
           r2 == FminLoop(r1.f, k, LTLB[k], [fmin |-> fmin, minLI |-> r1.minLI])
           r3 == GLoop(c1, k, 0, [g |-> g, minL |-> minL])
           r4 == GminLoop(r3.g, k, 0, [gmin |-> gmin, minL |-> r3.minL])
       IN  /\ Searched' = S
           /\ c' = c1
           /\ f' = r1.f
           /\ fmin' = r2.fmin
           /\ minLI' = r2.minLI
           /\ g' = r3.g
           /\ gmin' = r4.gmin
           /\ minL' = r4.minL
    /\ order' = Append(order, k)
    /\ UNCHANGED <<svcVars, tabuVars, pc, argVars, covVars, reverse_order, Lstar, LIstar, NRT, total_cost>>

\* lines 914-923: reverse the order, reset Lstar and LIstar
DPReverse ==
    /\ pc = "forward"
    /\ DpNext = {}
    /\ reverse_order' = [x \in 1..Len(order) |-> order[Len(order) + 1 - x]]
    /\ Lstar' = [i \in Nodes |-> -1]
    /\ LIstar' = [i \in Nodes |-> -1]
    /\ Searched' = {}
    /\ pc' = "backward"
    /\ UNCHANGED <<svcVars, tabuVars, argVars, covVars, tblVars, order, NRT, total_cost>>

\* lines 924-958: one node of the backward pass
DPBackward ==
    /\ pc = "backward"
    /\ Cardinality(Searched) < Len(reverse_order)
    /\ LET i  == reverse_order[Cardinality(Searched) + 1]
           S  == Searched \cup {i}
           r  == Choose(i)
           L1 == [Lstar EXCEPT ![i] = r.L]
           I1 == [LIstar EXCEPT ![i] = r.LI]
       IN  /\ Searched' = S
           /\ LIstar' = [k \in Nodes |->
                            IF k \in Successors(i) \ S THEN r.L ELSE I1[k]]
           /\ Lstar' = [k \in Nodes |->
                            IF k \in Predecessors(i) \ S THEN r.LI ELSE L1[k]]
    /\ UNCHANGED <<svcVars, tabuVars, pc, argVars, covVars, tblVars, order, reverse_order, NRT, total_cost>>

\* lines 960-968: NRT, total cost and return
DPCost ==
    /\ pc = "backward"
    /\ Cardinality(Searched) = Len(reverse_order)
    /\ LET nrt == [i \in Nodes |-> LIstar[i] + ProcTime[i] - Lstar[i]]
       IN  /\ NRT' = nrt
           /\ IF \A i \in Nodes : IndexOK(nrt[i])
              THEN pc' = "done" /\ total_cost' = TotalCost(0, nrt)
              ELSE pc' = "IndexError" /\ UNCHANGED total_cost
    /\ UNCHANGED <<svcVars, tabuVars, argVars, covVars, tblVars, Searched, order, reverse_order, Lstar, LIstar>>

(* -------------------------- tabu_search_for_SSA ------------------------ *)
LtmScale == 1000    \* ltm_factor and min_ are held in 1/LtmScale of a cost unit

Zeros == [i \in Nodes |-> 0]

\* every node is a candidate, demand nodes too
EveryNode == Nodes


\* lines 1006-1010: the nodes with a successor, in node order
CandidateNodes == {i \in Nodes : Successors(i) # {}}
Candidates ==
    [x \in 0..(Cardinality(CandidateNodes) - 1) |->
        CHOOSE v \in CandidateNodes :
            Cardinality({w \in CandidateNodes : w < v}) = x]

\* lines 1025-1032 and 1070-1077: forward pass
RECURSIVE MaxLILoop(_, _, _, _)
MaxLILoop(ord, pos, bv, acc) ==
    IF pos > Len(ord) THEN acc
    ELSE LET i == ord[pos]
         IN  MaxLILoop(ord, pos + 1, bv,
                [acc EXCEPT ![i] =
                    IF Predecessors(i) = {} THEN ProcTime[i]
                    ELSE ProcTime[i]
                         + SetMax({(1 - bv[k]) * acc[k] : k \in Predecessors(i)}, 0)])

\* NRT without the clamp at 0
NRTUnclamped(maxLI, minLT) == maxLI - minLT

\* lines 1042 and 1087: NRT[i] = max(MaxLI[i] - MinLT[i], 0)
NRTClamp(maxLI, minLT) == Max2(maxLI - minLT, 0)

\* lines 1034-1042 and 1079-1087: backward pass
RECURSIVE MinLTLoop(_, _, _, _)
MinLTLoop(ord, pos, maxLI, acc) ==
    IF pos > Len(ord) THEN acc
    ELSE LET i == ord[pos]
             minLT == IF Successors(i) = {} THEN LTUB[i]
                      ELSE SetMin({acc.NRT[j] + acc.MinLT[j] - ProcTime[j] :
                                      j \in Successors(i)}, Infinity)
         IN  MinLTLoop(ord, pos + 1, maxLI,
                [MinLT |-> [acc.MinLT EXCEPT ![i] = minLT],
                 NRT   |-> [acc.NRT EXCEPT ![i] = NRTClamp(maxLI[i], minLT)]])

\* lines 1044 and 1089: (h * z * sigma * np.sqrt(NRT)).sum()
RECURSIVE CostSum(_, _)
CostSum(nrt, i) ==
    IF i >= n THEN 0
    ELSE Cost(h[i], sigma[i], nrt[i]) + CostSum(nrt, i + 1)

\* MaxLI, MinLT, NRT and cost of the 0-1 vector bv (down, up: the two orders)
Evaluate(bv, down, up) ==
    LET maxLI == MaxLILoop(down, 1, bv, Zeros)
        r     == MinLTLoop(up, 1, maxLI, [MinLT |-> Zeros, NRT |-> Zeros])
    IN  [b |-> bv, MaxLI |-> maxLI, MinLT |-> r.MinLT, NRT |-> r.NRT,
         cost |-> CostSum(r.NRT, 0)]

\* lines 1063-1089: one bit flip per candidate, each evaluated
RECURSIVE EvaluateAll(_, _, _, _, _)
EvaluateAll(x, st, down, up, acc) ==
    IF x >= Cardinality(DOMAIN st.candidate) THEN acc
    ELSE EvaluateAll(x + 1, st, down, up,
            acc @@ (x :> Evaluate([st.b EXCEPT ![st.candidate[x]] = 1 - st.b[st.candidate[x]]],
                                  down, up)))

\* a selection without the aspiration criterion
RECURSIVE SelectLoopNoAspiration(_, _, _, _)
SelectLoopNoAspiration(i, st, cst, acc) ==
    IF i >= Cardinality(DOMAIN st.candidate) THEN acc
    ELSE SelectLoopNoAspiration(i + 1, st, cst,
            IF /\ st.iter_ >= st.TabuList[i]
               /\ cst[i] * LtmScale + st.ltm_factor * st.ltm[i] < acc.min_
            THEN [min_ |-> cst[i] * LtmScale + st.ltm_factor * st.ltm[i], istar |-> i]
            ELSE acc)


\* lines 1092-1104: best non-tabu move, or a tabu move that beats best_cost
RECURSIVE SelectLoop(_, _, _, _)
SelectLoop(i, st, cst, acc) ==
    IF i >= Cardinality(DOMAIN st.candidate) THEN acc
    ELSE SelectLoop(i + 1, st, cst,
            IF st.iter_ >= st.TabuList[i]
            THEN IF cst[i] * LtmScale + st.ltm_factor * st.ltm[i] < acc.min_
                 THEN [min_ |-> cst[i] * LtmScale + st.ltm_factor * st.ltm[i], istar |-> i]
                 ELSE acc
            ELSE IF cst[i] < st.best_cost /\ cst[i] * LtmScale < acc.min_
                 THEN [min_ |-> cst[i] * LtmScale, istar |-> i]
                 ELSE acc)

\* a selection that never accepts a move
SelectNone(st) ==
    LET ev == EvaluateAll(0, st, down_order, up_order, <<>>)
    IN  [ev |-> ev, cost |-> [x \in DOMAIN ev |-> ev[x].cost], istar |-> -1]

\* lines 1062-1104: the neighbourhood, its evaluation and the move selected
Select(st) ==
    LET ev  == EvaluateAll(0, st, down_order, up_order, <<>>)
        cst == [x \in DOMAIN ev |-> ev[x].cost]
    IN  [ev |-> ev, cost |-> cst,
         istar |-> SelectLoop(0, st, cst, [min_ |-> Infinity, istar |-> -1]).istar]

\* the generator is not reseeded
NotReseeded(gen, s) == gen

\* line 1002: np.random.seed(seed)
Reseed(gen, s) == [seed |-> s, pos |-> 0]

\* a draw moves the generator on
Advance(gen, k) == [gen EXCEPT !.pos = @ + k]

\* the locals of a call that has not started; gen is the global generator
IdleRun(gen) ==
    [TLLB |-> 0, TLUB |-> 0, b |-> <<>>, candidate |-> <<>>, TabuList |-> <<>>,
     NRT |-> <<>>, MaxLI |-> <<>>, MinLT |-> <<>>,
     B |-> <<>>, vNRT |-> <<>>, vMaxLI |-> <<>>, vMinLT |-> <<>>,
     cost |-> <<>>, istar |-> -1,
     best_cost |-> 0, prev_cost |-> 0, best_sol |-> <<>>, b_prev |-> <<>>,
     best_NRT |-> <<>>, best_MaxLI |-> <<>>, best_MinLT |-> <<>>,
     ltm_factor |-> 0, ltm_increase |-> 0, ltm |-> <<>>, iter_ |-> 0,
     rng |-> gen, rng0 |-> gen, pyrng |-> gen]

\* lines 1001-1059: seeding, the random start (bits: the draws at the
\* candidate nodes; a draw at a demand node is overwritten by line 1008) and
\* its evaluation
Start(st, bits) ==
    LET b1 == [i \in Nodes |-> IF i \in CandidateNodes THEN bits[i] ELSE 1]
        e  == Evaluate(b1, down_order, up_order)
        m  == Cardinality(CandidateNodes)
    IN  [st EXCEPT
            !.rng0 = st.rng,
            !.rng = Advance(Reseed(st.rng, seed), n),
            !.b = b1,
            !.candidate = Candidates,
            !.TabuList = [x \in 0..(m - 1) |-> 0],
            !.NRT = e.NRT, !.MaxLI = e.MaxLI, !.MinLT = e.MinLT,
            !.best_cost = e.cost, !.prev_cost = e.cost,
            !.best_sol = b1, !.b_prev = b1,
            !.best_NRT = e.NRT, !.best_MaxLI = e.MaxLI, !.best_MinLT = e.MinLT,
            !.ltm_factor = 0,
            !.ltm_increase = (e.cost * LtmScale) \div (n * max_iter * 10),
            !.ltm = [x \in 0..(m - 1) |-> 0],
            !.iter_ = 0,
            !.TLLB = TLLB0, !.TLUB = TLUB0]

\* the 'same solution' branch of line 1114 is taken by every move
TenureLoRaised(st, sel) == st.TLLB + 1


\* the bounds np.random.randint(TLLB, TLUB + 1) is called with at line 1122
TenureLo(st, sel) == IF st.b_prev = sel.ev[sel.istar].b THEN st.TLLB + 1 ELSE st.TLLB
TenureHi(st, sel) == IF st.b_prev = sel.ev[sel.istar].b THEN st.TLUB + 1 ELSE st.TLUB

\* a move is given no tenure
NoTenure(st, sel) == {0}


\* the values the draw of line 1122 can take (none is drawn without a move)
Tenures(st, sel) ==
    IF sel.istar = -1 THEN {0} ELSE TenureLo(st, sel)..TenureHi(st, sel)

\* an iteration without a move leaves the tabu list as it is
MoveKeepsTabuList(st, sel, tenure) ==
    LET i    == sel.istar
        seen == [st EXCEPT
                    !.B = [x \in DOMAIN sel.ev |-> sel.ev[x].b],
                    !.vNRT = [x \in DOMAIN sel.ev |-> sel.ev[x].NRT],
                    !.vMaxLI = [x \in DOMAIN sel.ev |-> sel.ev[x].MaxLI],
                    !.vMinLT = [x \in DOMAIN sel.ev |-> sel.ev[x].MinLT],
                    !.cost = sel.cost,
                    !.istar = i,
                    !.iter_ = st.iter_ + 1]
    IN  IF i = -1
        THEN [seen EXCEPT
                !.TLLB = Max2(st.TLLB - 1, 1),
                !.TLUB = Max2(st.TLUB - 1, 2)]
        ELSE LET e     == sel.ev[i]
                 same  == (st.b_prev = e.b)
                 moved == [seen EXCEPT
                            !.b = e.b,
                            !.ltm[i] = @ + 1,
                            !.TLLB = TenureLo(st, sel),
                            !.TLUB = TenureHi(st, sel),
                            !.ltm_factor = IF ~same /\ st.prev_cost = e.cost
                                           THEN st.ltm_factor + st.ltm_increase
                                           ELSE st.ltm_factor,
                            !.b_prev = e.b,
                            !.prev_cost = e.cost,
                            !.TabuList[i] = st.iter_ + tenure,
                            !.rng = Advance(st.rng, 1)]
             IN  IF e.cost < st.best_cost
                 THEN [moved EXCEPT
                        !.best_cost = e.cost,
                        !.best_sol = e.b,
                        !.best_NRT = e.NRT,
                        !.best_MaxLI = e.MaxLI,
                        !.best_MinLT = e.MinLT]
                 ELSE moved

\* lines 1106-1128: the move, or the reset of the tabu list
Move(st, sel, tenure) ==
    LET i    == sel.istar
        seen == [st EXCEPT
                    !.B = [x \in DOMAIN sel.ev |-> sel.ev[x].b],
                    !.vNRT = [x \in DOMAIN sel.ev |-> sel.ev[x].NRT],
                    !.vMaxLI = [x \in DOMAIN sel.ev |-> sel.ev[x].MaxLI],
                    !.vMinLT = [x \in DOMAIN sel.ev |-> sel.ev[x].MinLT],
                    !.cost = sel.cost,
                    !.istar = i,
                    !.iter_ = st.iter_ + 1]
    IN  IF i = -1
        THEN [seen EXCEPT
                !.TLLB = Max2(st.TLLB - 1, 1),
                !.TLUB = Max2(st.TLUB - 1, 2),
                !.TabuList = [x \in DOMAIN st.candidate |-> 0]]
        ELSE LET e     == sel.ev[i]
                 same  == (st.b_prev = e.b)
                 moved == [seen EXCEPT
                            !.b = e.b,
                            !.ltm[i] = @ + 1,
                            !.TLLB = TenureLo(st, sel),
                            !.TLUB = TenureHi(st, sel),
                            !.ltm_factor = IF ~same /\ st.prev_cost = e.cost
                                           THEN st.ltm_factor + st.ltm_increase
                                           ELSE st.ltm_factor,
                            !.b_prev = e.b,
                            !.prev_cost = e.cost,
                            !.TabuList[i] = st.iter_ + tenure,
                            !.rng = Advance(st.rng, 1)]
             IN  IF e.cost < st.best_cost
                 THEN [moved EXCEPT
                        !.best_cost = e.cost,
                        !.best_sol = e.b,
                        !.best_NRT = e.NRT,
                        !.best_MaxLI = e.MaxLI,
                        !.best_MinLT = e.MinLT]
                 ELSE moved

\* the result is returned without the post-processing
NoPostProcess(st) == st


\* the post-processing with a threshold of one period
PostProcessLoose(st) ==
    [st EXCEPT !.best_sol = [i \in Nodes |-> IF st.best_NRT[i] <= 1 THEN 0 ELSE st.best_sol[i]]]


\* lines 1131-1133: best_sol[i] = 0 where best_NRT[i] <= 0.00001
PostProcess(st) ==
    [st EXCEPT !.best_sol = [i \in Nodes |-> IF st.best_NRT[i] <= 0 THEN 0 ELSE st.best_sol[i]]]

\* what a call returns
Returned(st) ==
    [best_cost |-> st.best_cost, best_sol |-> st.best_sol, best_NRT |-> st.best_NRT,
     best_MaxLI |-> st.best_MaxLI, best_MinLT |-> st.best_MinLT]

\* a loop that stops one iteration short
LoopDoneEarly(st) == st.iter_ >= max_iter - 1

\* line 1061: for iter_ in range(max_iter) is exhausted
LoopDone(st) == st.iter_ >= max_iter

\* InventoryOptimizationService.__init__, in the process that makes the second
\* call: both global generators are seeded with 42
ServiceInit ==
    /\ tpc = "idle"
    /\ ts2.rng.seed # 42
    /\ ts2' = IdleRun([seed |-> 42, pos |-> 0])
    /\ UNCHANGED <<svcVars, argVars, dpVars, tpc, targVars, ts>>

\* lines 995-1059, in both calls.  A generator is a fixed function of its seed
\* and position: equal generators give equal draws.
TabuCall ==
    /\ tpc = "idle"
    /\ IF ~IsDAG
       THEN /\ tpc' = "AssertionError"
            /\ UNCHANGED <<ts, ts2>>
       ELSE /\ tpc' = "loop"
            /\ \E bits \in [CandidateNodes -> 0..1], bits2 \in [CandidateNodes -> 0..1] :
                /\ Reseed(ts.rng, seed) = Reseed(ts2.rng, seed) => bits = bits2
                /\ ts' = Start(ts, bits)
                /\ ts2' = Start(ts2, bits2)
    /\ UNCHANGED <<svcVars, argVars, dpVars, targVars>>

\* lines 1061-1128: one iteration of the search, in both calls
TabuIter ==
    /\ tpc = "loop"
    /\ ~LoopDone(ts)
    /\ LET sel  == Select(ts)
           sel2 == Select(ts2)
       IN  \E t \in Tenures(ts, sel), t2 \in Tenures(ts2, sel2) :
            /\ (ts.rng = ts2.rng /\ Tenures(ts, sel) = Tenures(ts2, sel2)) => t = t2
            /\ ts' = Move(ts, sel, t)
            /\ ts2' = Move(ts2, sel2, t2)
    /\ UNCHANGED <<svcVars, argVars, dpVars, tpc, targVars>>

\* lines 1130-1135: post-processing and return, in both calls
TabuReturn ==
    /\ tpc = "loop"
    /\ LoopDone(ts)
    /\ ts' = PostProcess(ts)
    /\ ts2' = PostProcess(ts2)
    /\ tpc' = "done"
    /\ UNCHANGED <<svcVars, argVars, dpVars, targVars>>

\* no method of the service is called
SvcIdle == spc = "none" /\ sv = <<>>

\* before the calls: two processes whose global generators differ
TabuIdle ==
    /\ tpc = "idle"
    /\ ts = IdleRun([seed |-> 0, pos |-> 0])
    /\ ts2 = IdleRun([seed |-> 0, pos |-> 1])

DPIdle ==
    /\ pc = "call"
    /\ Lmax = 0 /\ MaxDemand = <<>> /\ SafetyCost = <<>>
    /\ c = <<>> /\ f = <<>> /\ fmin = <<>> /\ g = <<>> /\ gmin = <<>>
    /\ minLI = <<>> /\ minL = <<>>
    /\ Searched = {} /\ order = <<>> /\ reverse_order = <<>>
    /\ Lstar = <<>> /\ LIstar = <<>> /\ NRT = <<>> /\ total_cost = 0

\* the edges a graph is drawn from: every edge i -> j with i < j (any DAG can be
\* numbered so), and the back edge 1 -> 0, which makes cycles possible
Pairs(m) == {e \in (0..(m - 1)) \X (0..(m - 1)) : e[1] < e[2] \/ e = <<1, 0>>}

\* arguments of a call of dynamic_programming_for_SSA
InitDP ==
    /\ n \in 1..MaxN
    /\ G \in SUBSET Pairs(n)
    /\ ProcTime \in [0..(n - 1) -> 0..MaxProc]
    /\ LTLB \in [0..(n - 1) -> 0..MaxLT]
    /\ LTUB \in [0..(n - 1) -> 0..MaxLT]
    /\ \A i \in 0..(n - 1) : LTLB[i] <= LTUB[i]
    /\ mu = [i \in 0..(n - 1) |-> MuVal]
    /\ sigma \in [0..(n - 1) -> {1, BigSigma}]
    /\ h \in [0..(n - 1) -> 1..MaxH]
    /\ DPIdle
    /\ max_iter = 0 /\ TLLB0 = 0 /\ TLUB0 = 0 /\ seed = 0
    /\ TabuIdle
    /\ SvcIdle

NextDP ==
    \/ DPAssert
    \/ DPMaxDemand
    \/ \E k \in Nodes : DPForward(k)
    \/ DPReverse
    \/ DPBackward
    \/ DPCost

SpecDP == InitDP /\ [][NextDP]_vars

\* the 3-node star of the notebook (SSA_TEST_CASES["three_point_network"])
StarScenario ==
    /\ n = 3
    /\ G = {<<0, 1>>, <<0, 2>>}
    /\ ProcTime = (0 :> 5 @@ 1 :> 4 @@ 2 :> 3)
    /\ LTUB = (0 :> 0 @@ 1 :> 0 @@ 2 :> 0)
    /\ mu = (0 :> 300 @@ 1 :> 200 @@ 2 :> 100)
    /\ sigma = (0 :> 12 @@ 1 :> 10 @@ 2 :> 15)
    /\ h = (0 :> 1 @@ 1 :> 1 @@ 2 :> 1)
    /\ max_iter = 10 /\ TLLB0 = 1 /\ TLUB0 = 3 /\ seed = 1

\* arguments of a call of tabu_search_for_SSA
InitTabu ==
    /\ \/ /\ StarScenario
          /\ LTLB = (0 :> 0 @@ 1 :> 0 @@ 2 :> 0)
       \/ /\ n \in 1..MaxN
          /\ G \in SUBSET Pairs(n)
          /\ ProcTime \in [0..(n - 1) -> 0..MaxProc]
          /\ LTLB = [i \in 0..(n - 1) |-> 0]
          /\ \E u \in 0..MaxLT : LTUB = [i \in 0..(n - 1) |-> u]
          /\ mu = [i \in 0..(n - 1) |-> MuVal]
          /\ \E big \in {-1, 0, n - 1} : sigma = [i \in 0..(n - 1) |-> IF i = big THEN BigSigma ELSE 1]
          /\ h \in [0..(n - 1) -> 1..MaxH]
          /\ max_iter = MaxIter
          /\ TLLB0 = 1
          /\ TLUB0 = MaxTL
          /\ seed = 1
    /\ DPIdle
    /\ TabuIdle
    /\ SvcIdle

NextTabu ==
    \/ ServiceInit
    \/ TabuCall
    \/ TabuIter
    \/ TabuReturn

SpecTabu == InitTabu /\ [][NextTabu]_vars

\* arguments of a call long enough for a tabu move to be taken back (four
\* nodes on the path 0 -> 1 -> 2 -> 3, tenure and max_iter of four), or for the
\* tabu list to be cleared twice (the path 0 -> 1, tenure of three)
InitTabuAsp ==
    /\ \/ /\ n = MaxN + 1
          /\ G \in {E \in SUBSET {e \in Pairs(n) : e[1] < e[2]} :
                      \A i \in 0..(n - 2) : <<i, i + 1>> \in E}
          /\ TLLB0 = MaxTL + 2
          /\ TLUB0 = MaxTL + 2
       \/ /\ n = 2
          /\ G = {<<0, 1>>}
          /\ TLLB0 = MaxTL + 1
          /\ TLUB0 = MaxTL + 1
    /\ ProcTime \in [0..(n - 1) -> 0..MaxProc]
    /\ LTLB = [i \in 0..(n - 1) |-> 0]
    /\ \E u \in 0..MaxLT : LTUB = [i \in 0..(n - 1) |-> u]
    /\ mu = [i \in 0..(n - 1) |-> MuVal]
    /\ \E big \in {-1, n - 1} : sigma = [i \in 0..(n - 1) |-> IF i = big THEN BigSigma ELSE 1]
    /\ h = [i \in 0..(n - 1) |-> 1]
    /\ max_iter = MaxIter + 2
    /\ seed = 1
    /\ DPIdle
    /\ TabuIdle
    /\ SvcIdle

SpecTabuAsp == InitTabuAsp /\ [][NextTabu]_vars


\* a step of a call is possible exactly when the call has not started or is in
\* its loop
CallEnabled == tpc \in {"idle", "loop"}

\* the interpreter goes on running a call that has not ended: weak fairness of
\* the steps of a call, WF_vars(TabuCall \/ TabuIter \/ TabuReturn), with
\* its ENABLED written out as CallEnabled
SpecTabuLive ==
    /\ InitTabu /\ [][NextTabu]_vars
    /\ ([]<>(~CallEnabled) \/ []<><<TabuCall \/ TabuIter \/ TabuReturn>>_vars)

(* ------------------ max_demand_compute called on its own ---------------- *)
\* lines 771-805: MaxNRT and Lmax
MaxDemandLmax ==
    /\ pc = "call"
    /\ Lmax' = LmaxCompute
    /\ pc' = "lmax"
    /\ UNCHANGED <<svcVars, tabuVars, argVars, MaxDemand, SafetyCost, tblVars, solVars>>

\* lines 806-811: the two tables, and the return
MaxDemandTables ==
    /\ pc = "lmax"
    /\ MaxDemand' = MaxDemandCompute
    /\ SafetyCost' = SafetyCostCompute
    /\ pc' = "returned"
    /\ UNCHANGED <<svcVars, tabuVars, argVars, Lmax, tblVars, solVars>>

\* arguments of a call of max_demand_compute: nothing constrains sigma or
\* the order of LTLB and LTUB
InitCov ==
    /\ n \in 1..MaxN
    /\ G \in SUBSET {e \in Pairs(n) : e[1] < e[2]}
    /\ ProcTime \in [0..(n - 1) -> 0..MaxProc]
    /\ LTLB \in [0..(n - 1) -> 0..MaxLT]
    /\ LTUB \in [0..(n - 1) -> 0..MaxLT]
    /\ mu = [i \in 0..(n - 1) |-> MuVal]
    /\ sigma \in [0..(n - 1) -> {-1, 1}]
    /\ h \in [0..(n - 1) -> 1..MaxH]
    /\ DPIdle
    /\ max_iter = 0 /\ TLLB0 = 0 /\ TLUB0 = 0 /\ seed = 0
    /\ TabuIdle
    /\ SvcIdle

NextCov ==
    \/ MaxDemandLmax
    \/ MaxDemandTables

SpecCov == InitCov /\ [][NextCov]_vars

(* ------------- both solvers on the same tree-topology input ------------- *)
InitCmp ==
    /\ n \in 1..MaxN
    /\ G \in SUBSET Pairs(n)
    /\ IsTree /\ IsDAG
    /\ ProcTime \in [0..(n - 1) -> 0..MaxProc]
    /\ LTLB = [i \in 0..(n - 1) |-> 0]
    /\ LTUB \in [0..(n - 1) -> 0..MaxLT]
    /\ mu = [i \in 0..(n - 1) |-> MuVal]
    /\ \E big \in {-1, 0} : sigma = [i \in 0..(n - 1) |-> IF i = big THEN BigSigma ELSE 1]
    /\ h \in [0..(n - 1) -> 1..MaxH]
    /\ DPIdle
    /\ max_iter \in 1..MaxIter
    /\ TLLB0 = 1
    /\ TLUB0 = MaxTL
    /\ seed = 1
    /\ TabuIdle
    /\ SvcIdle

\* the heuristic is called once the dynamic program has returned
NextCmp ==
    \/ DPAssert
    \/ DPMaxDemand
    \/ \E k \in Nodes : DPForward(k)
    \/ DPReverse
    \/ DPBackward
    \/ DPCost
    \/ (pc = "done" /\ TabuCall)
    \/ TabuIter
    \/ TabuReturn

SpecCmp == InitCmp /\ [][NextCmp]_vars


(* ------------- floating point of the service's arithmetic --------------- *)
\* A float is held as an integer number of 1/FloatUnit; every operation
\* rounds its exact result to FloatBits significant bits, ties to even
\* (the code's floats have 53 bits).
FloatBits == 4
FloatFrac == 4
FloatUnit == 2 ^ FloatFrac

RECURSIVE UlpOf(_, _, _)
\* the spacing of the floats around num/den
UlpOf(num, den, u) ==
    IF num < den * u * (2 ^ FloatBits) THEN u ELSE UlpOf(num, den, 2 * u)

\* num/den rounded to the nearest integer, ties to even
RoundHalfEven(num, den) ==
    LET q == num \div den
        r == num % den
    IN  IF 2 * r < den THEN q
        ELSE IF 2 * r > den THEN q + 1
        ELSE IF q % 2 = 0 THEN q ELSE q + 1

\* the float nearest to num/den
Fl(num, den) ==
    IF num < 0
    THEN -(RoundHalfEven(-num, den * UlpOf(-num, den, 1)) * UlpOf(-num, den, 1))
    ELSE RoundHalfEven(num, den * UlpOf(num, den, 1)) * UlpOf(num, den, 1)

FDiv(x, y) == Fl(x * FloatUnit, y)
FMul(x, y) == Fl(x * y, FloatUnit)
FAdd(x, y) == Fl(x + y, 1)
FSub(x, y) == Fl(x - y, 1)

\* the floats of 0..top (in 1/FloatUnit)
Floats(top) == {x \in 0..top : Fl(x, 1) = x}

(* -------- InventoryOptimizationService.tabu_search_for_SSA -------------- *)
MaxUnits == 10      \* line 115: at most 10.0 units at a node
TabuCap == 100      \* line 121: deque(maxlen=min(100, n))

\* lines 110-116: the initial solution, node by node
RECURSIVE InitialSolution(_, _, _, _)
InitialSolution(a, i, sol, remaining_budget) ==
    IF i > a.n \/ remaining_budget <= 0 THEN sol
    ELSE IF a.cost[i] <= remaining_budget
         THEN LET x == Min2(FDiv(remaining_budget, a.cost[i]), MaxUnits * FloatUnit)
              IN  InitialSolution(a, i + 1, [sol EXCEPT ![i] = x],
                                  FSub(remaining_budget, FMul(x, a.cost[i])))
         ELSE InitialSolution(a, i + 1, sol, remaining_budget)

\* lines 149-156: _calculate_ssa_objective, summed in node order
RECURSIVE ObjectiveLoop(_, _, _, _)
ObjectiveLoop(a, solution, i, total_profit) ==
    IF i > a.n THEN total_profit
    ELSE ObjectiveLoop(a, solution, i + 1,
                       FAdd(total_profit, FMul(solution[i], a.profit[i])))

\* lines 183-184: sum(neighbor[node] * cost for node in neighbor)
RECURSIVE SolutionCost(_, _, _, _)
SolutionCost(a, solution, i, total_cost_) ==
    IF i > a.n THEN total_cost_
    ELSE SolutionCost(a, solution, i + 1,
                      FAdd(total_cost_, FMul(solution[i], a.cost[i])))

\* lines 169-180: one unit (or what is left) moved from node i to node j
Transfer(a, current_solution, i, j) ==
    LET decrease_amount == Min2(current_solution[i], FloatUnit)
    IN  IF decrease_amount > 0
        THEN LET lowered == [current_solution EXCEPT ![i] = FSub(@, decrease_amount)]
                 increase_amount == FDiv(FMul(decrease_amount, a.cost[i]), a.cost[j])
             IN  [lowered EXCEPT ![j] = FAdd(@, increase_amount)]
        ELSE current_solution

\* lines 164-186: _generate_ssa_neighbors, pairs (i, j) in loop order
RECURSIVE SsaNeighbors(_, _, _, _)
SsaNeighbors(a, current_solution, k, neighbors) ==
    IF k >= a.n * a.n THEN neighbors
    ELSE LET i == (k \div a.n) + 1
             j == (k % a.n) + 1
             neighbor == Transfer(a, current_solution, i, j)
         IN  IF i # j /\ SolutionCost(a, neighbor, 1, 0) <= a.budget
             THEN SsaNeighbors(a, current_solution, k + 1, Append(neighbors, neighbor))
             ELSE SsaNeighbors(a, current_solution, k + 1, neighbors)

InSeq(x, q) == \E k \in 1..Len(q) : q[k] = x

\* lines 126-135: the best neighbour that is not tabu (None: 0)
RECURSIVE BestNeighbor(_, _, _, _, _)
BestNeighbor(a, neighbors, tabu_list, k, best) ==
    IF k > Len(neighbors) THEN best
    ELSE IF ~InSeq(neighbors[k], tabu_list)
            /\ (best.idx = 0 \/ ObjectiveLoop(a, neighbors[k], 1, 0) > best.obj)
         THEN BestNeighbor(a, neighbors, tabu_list, k + 1,
                           [idx |-> k, obj |-> ObjectiveLoop(a, neighbors[k], 1, 0)])
         ELSE BestNeighbor(a, neighbors, tabu_list, k + 1, best)

\* deque.append with maxlen: the oldest entry falls out
DequeAppend(q, x, maxlen) ==
    IF maxlen = 0 THEN q
    ELSE IF Len(q) >= maxlen THEN Append(Tail(q), x) ELSE Append(q, x)

\* lines 103-121
SvcTabuStart ==
    /\ spc = "tabu_call"
    /\ LET current_solution == InitialSolution(sv, 1, [i \in 1..sv.n |-> 0], sv.budget)
       IN  sv' = [sv EXCEPT !.current_solution = current_solution,
                            !.best_solution = current_solution,
                            !.best_objective = ObjectiveLoop(sv, current_solution, 1, 0),
                            !.tabu_list = <<>>,
                            !.iteration = 0]
    /\ spc' = "tabu_loop"
    /\ UNCHANGED <<argVars, dpVars, tabuVars>>

\* lines 123-145: one iteration, or the break of line 138
SvcTabuIter ==
    /\ spc = "tabu_loop"
    /\ sv.iteration < sv.max_iterations
    /\ LET neighbors == SsaNeighbors(sv, sv.current_solution, 0, <<>>)
           best == BestNeighbor(sv, neighbors, sv.tabu_list, 1, [idx |-> 0, obj |-> 0])
       IN  IF best.idx = 0
           THEN spc' = "tabu_done" /\ sv' = sv
           ELSE /\ spc' = spc
                /\ sv' = [sv EXCEPT
                            !.current_solution = neighbors[best.idx],
                            !.tabu_list = DequeAppend(@, neighbors[best.idx], Min2(TabuCap, sv.n)),
                            !.best_solution = IF best.obj > sv.best_objective
                                              THEN neighbors[best.idx] ELSE @,
                            !.best_objective = IF best.obj > @ THEN best.obj ELSE @,
                            !.iteration = @ + 1]
    /\ UNCHANGED <<argVars, dpVars, tabuVars>>

\* line 147, once range(max_iterations) is exhausted
SvcTabuReturn ==
    /\ spc = "tabu_loop"
    /\ sv.iteration >= sv.max_iterations
    /\ spc' = "tabu_done"
    /\ UNCHANGED <<sv, argVars, dpVars, tabuVars>>

\* bounds of the arguments (costs and budget in 1/FloatUnit)
MaxSvcNodes == 2
MaxCostU == 6
MaxBudgetU == 14
MaxProfit == 2
MaxIterations == 2

\* the solvers of extracted_inventory_functions are not called
SolversIdle ==
    /\ n = 1 /\ G = {}
    /\ ProcTime = <<>> /\ LTLB = <<>> /\ LTUB = <<>> /\ mu = <<>> /\ sigma = <<>> /\ h = <<>>
    /\ DPIdle
    /\ max_iter = 0 /\ TLLB0 = 0 /\ TLUB0 = 0 /\ seed = 0
    /\ TabuIdle

\* arguments of a call of the service's tabu_search_for_SSA
InitSvcTabu ==
    /\ SolversIdle
    /\ spc = "tabu_call"
    /\ \E k \in 1..MaxSvcNodes :
       \E cost \in [1..k -> Floats(MaxCostU) \ {0}] :
       \E profit \in [1..k -> {p * FloatUnit : p \in 1..MaxProfit}] :
       \E budget \in Floats(MaxBudgetU) :
       \E max_iterations \in {0, MaxIterations} :
          sv = [n |-> k, cost |-> cost, profit |-> profit, budget |-> budget,
                max_iterations |-> max_iterations,
                current_solution |-> <<>>, best_solution |-> <<>>,
                best_objective |-> 0, tabu_list |-> <<>>, iteration |-> 0]

NextSvcTabu ==
    \/ SvcTabuStart
    \/ SvcTabuIter
    \/ SvcTabuReturn

SpecSvcTabu == InitSvcTabu /\ [][NextSvcTabu]_vars


(* ------ InventoryOptimizationService.dynamic_programming_for_SSA -------- *)
\* int(x) of a float x >= 0
IntOf(x) == x \div FloatUnit

\* lines 74-84: row i of dp and parent from row i - 1 (columns b = 0..)
DpRow(prev, node_cost, node_profit) ==
    [b \in 0..(Len(prev) - 1) |->
        IF b >= node_cost /\ FAdd(prev[b - node_cost + 1], node_profit) > prev[b + 1]
        THEN [dp |-> FAdd(prev[b - node_cost + 1], node_profit), parent |-> 1]
        ELSE [dp |-> prev[b + 1], parent |-> 0]]

\* lines 89-93: the allocation read back from parent, from node i down to 1
RECURSIVE Restore(_, _, _, _)
Restore(a, i, b, allocation) ==
    IF i = 0 THEN allocation
    ELSE IF a.parent[i][b + 1] = 1
         THEN Restore(a, i - 1, b - IntOf(a.cost[i]), [allocation EXCEPT ![i] = FloatUnit])
         ELSE Restore(a, i - 1, b, allocation)

\* lines 61-67: row 0 of the tables
SvcDPStart ==
    /\ spc = "dp_call"
    /\ sv' = [sv EXCEPT !.dp = <<[b \in 1..(IntOf(sv.budget) + 1) |-> 0]>>,
                        !.parent = <<>>,
                        !.i = 1]
    /\ spc' = "dp_rows"
    /\ UNCHANGED <<argVars, dpVars, tabuVars>>

\* lines 69-84: one node of the forward loop (dp[i] is the entry i + 1 of dp)
SvcDPRow ==
    /\ spc = "dp_rows"
    /\ sv.i <= sv.n
    /\ LET row == DpRow(sv.dp[sv.i], IntOf(sv.cost[sv.i]), sv.profit[sv.i])
           cols == 1..Len(sv.dp[sv.i])
       IN  sv' = [sv EXCEPT !.dp = Append(@, [b \in cols |-> row[b - 1].dp]),
                            !.parent = Append(@, [b \in cols |-> row[b - 1].parent]),
                            !.i = @ + 1]
    /\ UNCHANGED <<spc, argVars, dpVars, tabuVars>>

\* lines 86-95: the allocation is reconstructed and returned
SvcDPReturn ==
    /\ spc = "dp_rows"
    /\ sv.i > sv.n
    /\ sv' = [sv EXCEPT !.allocation =
                Restore(sv, sv.n, IntOf(sv.budget), [k \in 1..sv.n |-> 0])]
    /\ spc' = "dp_done"
    /\ UNCHANGED <<argVars, dpVars, tabuVars>>

\* bounds of the arguments (costs and budget in halves)
MaxDPNodes == 3
MaxCostH == 4
MaxBudgetH == 4

Halves(m) == {(x * FloatUnit) \div 2 : x \in 0..m}

\* arguments of a call of the service's dynamic_programming_for_SSA
InitSvcDP ==
    /\ SolversIdle
    /\ spc = "dp_call"
    /\ \E k \in 1..MaxDPNodes :
       \E cost \in [1..k -> Halves(MaxCostH) \ {0}] :
       \E profit \in [1..k -> {p * FloatUnit : p \in 1..MaxProfit}] :
       \E budget \in Halves(MaxBudgetH) :
          sv = [n |-> k, cost |-> cost, profit |-> profit, budget |-> budget,
                dp |-> <<>>, parent |-> <<>>, i |-> 0, allocation |-> <<>>]

NextSvcDP ==
    \/ SvcDPStart
    \/ SvcDPRow
    \/ SvcDPReturn

SpecSvcDP == InitSvcDP /\ [][NextSvcDP]_vars


(* --------------- InventoryOptimizationService.wagner_whitin ------------- *)
\* line 396: F starts at 99999999999. (held as 10^9, above every cost here)
WWSentinel == 1000000000

\* holding is not accumulated over the periods carried
CumNextFlat(a, i, j, st) ==
    [st EXCEPT !.cumh = a.hc[j],
               !.cum = st.cum + (a.variable[i] + a.hc[j]) * a.demand[j + 1]]

\* lines 411-412: cumh += hc[j]; cum += (variable[i] + cumh) * demand[j+1]
CumNext(a, i, j, st) ==
    [st EXCEPT !.cumh = st.cumh + a.hc[j],
               !.cum = st.cum + (a.variable[i] + st.cumh + a.hc[j]) * a.demand[j + 1]]

\* lines 405-412: the inner loop of order period i, from period j on
RECURSIVE WWInner(_, _, _, _)
WWInner(a, i, j, st) ==
    LET upd == IF st.cum < st.F[j]
               THEN [st EXCEPT !.F[j] = st.cum, !.prev[j] = i - 1]
               ELSE st
    IN  IF j = a.T - 1 THEN upd
        ELSE WWInner(a, i, j + 1, CumNext(a, i, j, upd))

\* orders are not reset after a set-up period
RECURSIVE OrdersNoReset(_, _, _, _)
OrdersNoReset(a, t, dem, ord) ==
    IF t < 0 THEN ord
    ELSE OrdersNoReset(a, t - 1, dem + a.demand[t],
            IF a.setup[t] = 1 THEN [ord EXCEPT ![t] = dem + a.demand[t]] ELSE ord)

\* lines 423-429: the order quantities, from the last period back
RECURSIVE WWOrders(_, _, _, _)
WWOrders(a, t, dem, ord) ==
    IF t < 0 THEN ord
    ELSE IF a.setup[t] = 1
         THEN WWOrders(a, t - 1, 0, [ord EXCEPT ![t] = dem + a.demand[t]])
         ELSE WWOrders(a, t - 1, dem + a.demand[t], ord)

\* lines 396-397
WWStart ==
    /\ spc = "ww_call"
    /\ sv' = [sv EXCEPT !.F = [t \in 0..(sv.T - 1) |-> WWSentinel],
                        !.prev = [t \in 0..(sv.T - 1) |-> -1],
                        !.i = 0]
    /\ spc' = "ww_forward"
    /\ UNCHANGED <<argVars, dpVars, tabuVars>>

\* lines 399-412: one order period i of the forward recursion
WWForward ==
    /\ spc = "ww_forward"
    /\ sv.i < sv.T
    /\ LET i == sv.i
           cum == IF i = 0 THEN sv.fixed[i] + sv.variable[i] * sv.demand[i]
                  ELSE sv.F[i - 1] + sv.fixed[i] + sv.variable[i] * sv.demand[i]
           st == WWInner(sv, i, i, [F |-> sv.F, prev |-> sv.prev, cum |-> cum, cumh |-> 0])
       IN  sv' = [sv EXCEPT !.F = st.F, !.prev = st.prev, !.i = i + 1]
    /\ UNCHANGED <<spc, argVars, dpVars, tabuVars>>

\* lines 415-416
WWReconstruct ==
    /\ spc = "ww_forward"
    /\ sv.i >= sv.T
    /\ sv' = [sv EXCEPT !.setup = [t \in 0..(sv.T - 1) |-> 0], !.j = sv.T - 1]
    /\ spc' = "ww_setup"
    /\ UNCHANGED <<argVars, dpVars, tabuVars>>

\* lines 417-420: one turn of the while loop
WWSetupStep ==
    /\ spc = "ww_setup"
    /\ sv.j # -1
    /\ sv' = [sv EXCEPT !.setup[sv.prev[sv.j] + 1] = 1, !.j = sv.prev[sv.j]]
    /\ UNCHANGED <<spc, argVars, dpVars, tabuVars>>

\* lines 423-435: the orders, and the return
WWReturn ==
    /\ spc = "ww_setup"
    /\ sv.j = -1
    /\ sv' = [sv EXCEPT !.order = WWOrders(sv, sv.T - 1, 0, [t \in 0..(sv.T - 1) |-> 0]),
                        !.total_cost = sv.F[sv.T - 1]]
    /\ spc' = "ww_done"
    /\ UNCHANGED <<argVars, dpVars, tabuVars>>

\* bounds of the arguments
MaxT == 3
MaxDem == 2
MaxFixed == 2
MaxVariable == 1
MaxHolding == 1

\* arguments of a call of wagner_whitin (per-period costs of length T)
InitWW ==
    /\ SolversIdle
    /\ spc = "ww_call"
    /\ \E T \in 1..MaxT :
       \E demand \in [0..(T - 1) -> 0..MaxDem] :
       \E fixed \in [0..(T - 1) -> {0, MaxFixed}] :
       \E variable \in [0..(T - 1) -> 0..MaxVariable] :
       \E hc \in [0..(T - 1) -> 0..MaxHolding] :
          sv = [T |-> T, demand |-> demand, fixed |-> fixed, variable |-> variable,
                hc |-> hc, F |-> <<>>, prev |-> <<>>, i |-> 0, setup |-> <<>>,
                j |-> 0, order |-> <<>>, total_cost |-> 0]

NextWW ==
    \/ WWStart
    \/ WWForward
    \/ WWReconstruct
    \/ WWSetupStep
    \/ WWReturn

SpecWW == InitWW /\ [][NextWW]_vars

\* a statement of the call remains to be run
WWEnabled == spc \in {"ww_call", "ww_forward", "ww_setup"}

\* the interpreter goes on running a call that has not ended: WF_vars(NextWW)
\* with its ENABLED written out as WWEnabled
SpecWWLive ==
    /\ InitWW /\ [][NextWW]_vars
    /\ ([]<>(~WWEnabled) \/ []<><<NextWW>>_vars)


(* ------------- InventoryOptimizationService.simulate_inventory ---------- *)
RECURSIVE Arrivals(_, _, _)
\* lines 464-466: the orders due by this period are added to the inventory
Arrivals(pending_orders, period, inventory) ==
    IF pending_orders # <<>> /\ Head(pending_orders)[1] <= period
    THEN Arrivals(Tail(pending_orders), period, inventory + Head(pending_orders)[2])
    ELSE [pending_orders |-> pending_orders, inventory |-> inventory]

\* an unmet demand is backordered
ServeBackorder(inventory, demand) ==
    IF inventory >= demand
    THEN [inventory |-> inventory - demand, fulfilled |-> demand, shortage |-> 0]
    ELSE [inventory |-> inventory - demand, fulfilled |-> inventory,
          shortage |-> demand - inventory]

\* lines 472-480: the demand is served from the inventory on hand
Serve(inventory, demand) ==
    IF inventory >= demand
    THEN [inventory |-> inventory - demand, fulfilled |-> demand, shortage |-> 0]
    ELSE [inventory |-> 0, fulfilled |-> inventory, shortage |-> demand - inventory]

\* lines 483-489: the order decision of the policy
OrderQty(policy, inventory) ==
    IF policy.policy_type = "QR"
    THEN IF inventory <= policy.R THEN policy.Q ELSE 0
    ELSE IF policy.policy_type = "sS"
    THEN IF inventory <= policy.s THEN policy.S - inventory ELSE 0
    ELSE 0

RECURSIVE SeqSum(_)
SeqSum(q) == IF q = <<>> THEN 0 ELSE Head(q) + SeqSum(Tail(q))

\* lines 447-460
SimStart ==
    /\ spc = "sim_call"
    /\ sv' = [sv EXCEPT !.periods = Len(sv.demands),
                        !.inventory_history = <<sv.initial_inventory>>,
                        !.orders = <<>>,
                        !.inventory = sv.initial_inventory]
    /\ spc' = "sim_loop"
    /\ UNCHANGED <<argVars, dpVars, tabuVars>>

\* lines 462-499: one period of the simulation
SimPeriod ==
    /\ spc = "sim_loop"
    /\ sv.period < sv.periods
    /\ LET arr == Arrivals(sv.pending_orders, sv.period, sv.inventory)
           demand == sv.demands[sv.period + 1]
           srv == Serve(arr.inventory, demand)
           order_qty == OrderQty(sv.policy, srv.inventory)
       IN  sv' = [sv EXCEPT
                   !.period = sv.period + 1,
                   !.inventory = srv.inventory,
                   !.total_demand = sv.total_demand + demand,
                   !.total_fulfilled = sv.total_fulfilled + srv.fulfilled,
                   !.stockouts = sv.stockouts + (IF arr.inventory < demand THEN 1 ELSE 0),
                   !.total_shortage_cost = sv.total_shortage_cost + srv.shortage * 10,
                   !.pending_orders = IF order_qty > 0
                                      THEN Append(arr.pending_orders,
                                                  <<sv.period + sv.lead_time, order_qty>>)
                                      ELSE arr.pending_orders,
                   !.total_order_cost = sv.total_order_cost + (IF order_qty > 0 THEN 50 ELSE 0),
                   !.orders = Append(sv.orders, IF order_qty > 0 THEN order_qty ELSE 0),
                   !.total_holding_cost = sv.total_holding_cost + srv.inventory * 1,
                   !.inventory_history = Append(sv.inventory_history, srv.inventory)]
    /\ UNCHANGED <<spc, argVars, dpVars, tabuVars>>

\* lines 502-515: the result; a quotient is held as <<numerator, denominator>>
SimReturn ==
    /\ spc = "sim_loop"
    /\ sv.period >= sv.periods
    /\ sv' = [sv EXCEPT
               !.service_level = IF sv.total_demand > 0
                                 THEN <<sv.total_fulfilled, sv.total_demand>> ELSE <<1, 1>>,
               !.average_inventory = <<SeqSum(sv.inventory_history), Len(sv.inventory_history)>>,
               !.stockout_frequency = IF sv.periods > 0
                                      THEN <<sv.stockouts, sv.periods>> ELSE <<0, 1>>,
               !.total_cost = sv.total_holding_cost + sv.total_order_cost
                              + sv.total_shortage_cost,
               !.inventory_history = SubSeq(sv.inventory_history, 1,
                                            Len(sv.inventory_history) - 1)]
    /\ spc' = "sim_done"
    /\ UNCHANGED <<argVars, dpVars, tabuVars>>

\* bounds of the arguments
MaxQty == 2
MaxLead == 2

Policies ==
    {[policy_type |-> "QR", Q |-> Q, R |-> R, s |-> 0, S |-> 0] :
        Q \in 0..MaxQty, R \in 0..MaxQty}
    \cup {[policy_type |-> "sS", Q |-> 0, R |-> 0, s |-> s, S |-> S] :
        s \in 0..MaxQty, S \in 0..MaxQty}

\* arguments of a call of simulate_inventory
InitSim ==
    /\ SolversIdle
    /\ spc = "sim_call"
    /\ \E periods \in 0..MaxT :
       \E demands \in [1..periods -> 0..MaxDem] :
       \E policy \in Policies :
       \E initial_inventory \in 0..MaxQty :
       \E lead_time \in 0..MaxLead :
          sv = [policy |-> policy, demands |-> demands,
                initial_inventory |-> initial_inventory, lead_time |-> lead_time,
                periods |-> 0, period |-> 0, inventory |-> 0, pending_orders |-> <<>>,
                inventory_history |-> <<>>, orders |-> <<>>, stockouts |-> 0,
                total_holding_cost |-> 0, total_order_cost |-> 0,
                total_shortage_cost |-> 0, total_demand |-> 0, total_fulfilled |-> 0,
                service_level |-> <<0, 1>>, average_inventory |-> <<0, 1>>,
                stockout_frequency |-> <<0, 1>>, total_cost |-> 0]

NextSim ==
    \/ SimStart
    \/ SimPeriod
    \/ SimReturn

SpecSim == InitSim /\ [][NextSim]_vars


(* -------------------------- base_stock_simulation ----------------------- *)
\* the buffer is read one slot off
SlotOff(t, LT) == (t + 1) % LT

\* lines 233 and 236: the slot (t - LT) % LT of the production buffer
Slot(t, LT) == (t - LT) % LT

\* lines 233-237 for one sample x = [I, T, production] in period t
SamplePeriod(a, t, x) ==
    LET arrive == x.production[Slot(t, a.LT)]
        prod   == Min2(a.capacity, a.S + a.demand_t - x.I[t] - x.T[t])
    IN  [I |-> [x.I EXCEPT ![t + 1] = x.I[t] - a.demand_t + arrive],
         T |-> [x.T EXCEPT ![t + 1] = x.T[t] + prod - arrive],
         production |-> [x.production EXCEPT ![t % a.LT] = prod]]

RECURSIVE SumOver(_, _)
\* the sum of the values of the function fn over the set D of its domain
SumOver(fn, D) ==
    IF D = {} THEN 0
    ELSE LET x == CHOOSE y \in D : TRUE IN fn[x] + SumOver(fn, D \ {x})

\* lines 226-230
BSStart ==
    /\ spc = "bs_call"
    /\ sv' = [sv EXCEPT
               !.I = [s \in 1..sv.n_samples |->
                        [t \in 0..sv.n_periods |-> IF t = 0 THEN sv.S ELSE 0]],
               !.T = [s \in 1..sv.n_samples |-> [t \in 0..sv.n_periods |-> 0]],
               !.production = [s \in 1..sv.n_samples |-> [k \in 0..(sv.LT - 1) |-> 0]],
               !.sum_dC = 0,
               !.t = 0]
    /\ spc' = "bs_loop"
    /\ UNCHANGED <<argVars, dpVars, tabuVars>>

\* lines 232-240: one period, all samples; (t - LT) % LT raises when LT is 0
BSPeriod ==
    /\ spc = "bs_loop"
    /\ sv.t < sv.n_periods
    /\ IF sv.LT = 0
       THEN spc' = "ZeroDivisionError" /\ UNCHANGED sv
       ELSE /\ LET t == sv.t
                   new == [s \in 1..sv.n_samples |->
                             SamplePeriod([LT |-> sv.LT, capacity |-> sv.capacity, S |-> sv.S,
                                           demand_t |-> sv.demand[s][t]],
                                          t,
                                          [I |-> sv.I[s], T |-> sv.T[s],
                                           production |-> sv.production[s]])]
                   dC == [s \in 1..sv.n_samples |-> IF sv.I[s][t] < 0 THEN -sv.b ELSE sv.h]
               IN  sv' = [sv EXCEPT
                           !.I = [s \in 1..sv.n_samples |-> new[s].I],
                           !.T = [s \in 1..sv.n_samples |-> new[s].T],
                           !.production = [s \in 1..sv.n_samples |-> new[s].production],
                           !.sum_dC = sv.sum_dC + SumOver(dC, 1..sv.n_samples),
                           !.t = t + 1]
            /\ UNCHANGED spc
    /\ UNCHANGED <<argVars, dpVars, tabuVars>>

\* lines 242-243: the cost over every entry of I, and the return; a quotient
\* is held as <<numerator, denominator>>
BSReturn ==
    /\ spc = "bs_loop"
    /\ sv.t >= sv.n_periods
    /\ LET entries == (1..sv.n_samples) \X (0..sv.n_periods)
           neg == [e \in entries |-> IF sv.I[e[1]][e[2]] < 0 THEN sv.I[e[1]][e[2]] ELSE 0]
           pos == [e \in entries |-> IF sv.I[e[1]][e[2]] > 0 THEN sv.I[e[1]][e[2]] ELSE 0]
       IN  sv' = [sv EXCEPT
                   !.dC = <<sv.sum_dC, sv.n_samples * sv.n_periods>>,
                   !.total_cost = <<-1 * sv.b * SumOver(neg, entries)
                                      + sv.h * SumOver(pos, entries),
                                    sv.n_periods * sv.n_samples>>]
    /\ spc' = "bs_done"
    /\ UNCHANGED <<argVars, dpVars, tabuVars>>

\* bounds of the arguments
MaxSamples == 2
MaxBack == 2
BigCapacity == 9

\* arguments of a call of base_stock_simulation
InitBS ==
    /\ SolversIdle
    /\ spc = "bs_call"
    /\ \E n_samples \in 1..MaxSamples :
       \E n_periods \in 1..MaxT :
       \E demand \in [1..n_samples -> [0..(n_periods - 1) -> 0..MaxDem]] :
       \E capacity \in {0, 1, BigCapacity} :
       \E LT \in 0..MaxLead :
       \E S \in 0..MaxQty :
          sv = [n_samples |-> n_samples, n_periods |-> n_periods, demand |-> demand,
                capacity |-> capacity, LT |-> LT, b |-> MaxBack, h |-> MaxH, S |-> S,
                I |-> <<>>, T |-> <<>>, production |-> <<>>, sum_dC |-> 0, t |-> 0,
                dC |-> <<0, 1>>, total_cost |-> <<0, 1>>]

NextBS ==
    \/ BSStart
    \/ BSPeriod
    \/ BSReturn

SpecBS == InitBS /\ [][NextBS]_vars


(* ------------------ multi_stage_base_stock_simulation ------------------- *)
\* Quantities are floats in 1/FloatUnit. One sample is carried: every line
\* of the recursion works on the samples elementwise. The derivative arrays
\* dI, dT, dEI, dProd and dC, which no line of the inventory recursion
\* reads, are not carried.

\* the next node of an iteration over the nodes D, in label order
FirstOf(D) == CHOOSE v \in D : \A w \in D : v <= w

RECURSIVE InitialInventory(_, _, _, _)
\* lines 282-285: init_ = S[i], then init_ -= phi[i, j] * S[j] over the
\* successors js
InitialInventory(a, i, js, init_) ==
    IF js = {} THEN init_
    ELSE LET j == FirstOf(js)
         IN  InitialInventory(a, i, js \ {j},
                              FSub(init_, FMul(a.phi[<<i, j>>], a.S[j])))

RECURSIVE AddSuccessors(_, _, _, _)
\* lines 312-313: EI[i] += phi[i, j] * EI[j] over the successors js
AddSuccessors(a, i, js, EI) ==
    IF js = {} THEN EI
    ELSE LET j == FirstOf(js)
         IN  AddSuccessors(a, i, js \ {j},
                           [EI EXCEPT ![i] = FAdd(EI[i], FMul(a.phi[<<i, j>>], EI[j]))])

RECURSIVE Echelon(_, _, _)
\* lines 304-313: the echelon inventory of the nodes of seq, in that order
Echelon(a, seq, EI) ==
    IF seq = <<>> THEN EI
    ELSE LET i   == Head(seq)
             own == FAdd(a.I[i][a.t], a.T[i][a.t])
         IN  IF Successors(i) = {}
             THEN Echelon(a, Tail(seq),
                          [EI EXCEPT ![i] = FSub(own, a.demand[i][a.t])])
             ELSE Echelon(a, Tail(seq),
                          AddSuccessors(a, i, Successors(i), [EI EXCEPT ![i] = own]))

RECURSIVE Allocation(_, _, _, _)
\* lines 319-320: the minimum with I[j, t] * alpha[j, i] / phi[j, i] over
\* the predecessors ks
Allocation(a, i, ks, p) ==
    IF ks = {} THEN p
    ELSE LET k == FirstOf(ks)
         IN  Allocation(a, i, ks \ {k},
                        Min2(FDiv(FMul(a.I[k][a.t], a.alpha[<<k, i>>]), a.phi[<<k, i>>]), p))

\* lines 317-320: prod[i]
Production(a, EI, i) ==
    Allocation(a, i, Predecessors(i), Min2(a.capacity[i], FSub(a.S[i], EI[i])))

RECURSIVE Shipped(_, _, _, _, _)
\* lines 347-349: dummy += prod[j] * phi[i, j] over the successors js
Shipped(a, i, js, prod, dummy) ==
    IF js = {} THEN dummy
    ELSE LET j == FirstOf(js)
         IN  Shipped(a, i, js \ {j}, prod, FAdd(dummy, FMul(prod[j], a.phi[<<i, j>>])))

RECURSIVE ColumnSum(_, _, _, _)
\* row[lo:][mask].sum(): the entries below 0 (sign -1), above 0 (sign 1) or
\* all of them (sign 0), added from the left
ColumnSum(row, lo, hi, sign) ==
    IF lo > hi THEN 0
    ELSE LET x    == row[hi]
             rest == ColumnSum(row, lo, hi - 1, sign)
         IN  IF sign = 0 \/ (sign < 0 /\ x < 0) \/ (sign > 0 /\ x > 0)
             THEN FAdd(rest, x)
             ELSE rest

RECURSIVE NetworkCost(_, _, _)
\* lines 367-370: total over the nodes from i on
NetworkCost(a, i, total) ==
    IF i >= n THEN total
    ELSE NetworkCost(a, i + 1,
           FAdd(total,
                FAdd(FMul(-a.b[i], ColumnSum(a.I[i], a.maxLT, a.n_periods, -1)),
                     FMul(a.h[i],
                          FAdd(ColumnSum(a.I[i], a.maxLT, a.n_periods, 1),
                               ColumnSum(a.T[i], a.maxLT, a.n_periods, 0))))))

\* lines 269, 275-286, 297-301
MSStart ==
    /\ spc = "ms_call"
    /\ LET maxLT == SetMax({sv.LT[i] : i \in Nodes}, 0)
       IN  sv' = [sv EXCEPT
                   !.maxLT = maxLT,
                   !.I = [i \in Nodes |->
                            [t \in 0..sv.n_periods |->
                               IF t = 0
                               THEN InitialInventory(sv, i, Successors(i), sv.S[i])
                               ELSE 0]],
                   !.T = [i \in Nodes |-> [t \in 0..sv.n_periods |-> 0]],
                   !.EI = [i \in Nodes |-> 0],
                   !.production = [i \in Nodes |-> [k \in 0..(maxLT - 1) |-> 0]],
                   !.prod = [i \in Nodes |-> 0],
                   !.t = 0]
    /\ spc' = "ms_loop"
    /\ UNCHANGED <<argVars, dpVars, tabuVars>>

\* lines 303-354: one period
MSPeriod ==
    /\ spc = "ms_loop"
    /\ sv.t < sv.n_periods
    /\ LET t      == sv.t
           EI     == Echelon(sv, up_order, sv.EI)
           prod   == [i \in Nodes |-> Production(sv, EI, i)]
           arrive == [i \in Nodes |-> sv.production[i][Slot(t, sv.LT[i])]]
       IN  sv' = [sv EXCEPT
                   !.EI = EI,
                   !.prod = prod,
                   !.T = [i \in Nodes |->
                            [sv.T[i] EXCEPT
                               ![t + 1] = FSub(FAdd(sv.T[i][t], prod[i]), arrive[i])]],
                   !.I = [i \in Nodes |->
                            [sv.I[i] EXCEPT
                               ![t + 1] =
                                  IF Successors(i) = {}
                                  THEN FAdd(FSub(sv.I[i][t], sv.demand[i][t]), arrive[i])
                                  ELSE FAdd(FSub(sv.I[i][t],
                                                 Shipped(sv, i, Successors(i), prod, 0)),
                                            arrive[i])]],
                   !.production = [i \in Nodes |->
                                     [sv.production[i] EXCEPT ![t % sv.LT[i]] = prod[i]]],
                   !.t = t + 1]
    /\ UNCHANGED spc
    /\ UNCHANGED <<argVars, dpVars, tabuVars>>

\* lines 366-371 and 382: the cost beyond the warm-up, and the return
MSReturn ==
    /\ spc = "ms_loop"
    /\ sv.t >= sv.n_periods
    /\ sv' = [sv EXCEPT
               !.total_cost =
                  FDiv(FDiv(NetworkCost(sv, 0, 0), FloatUnit),
                       Max2(sv.n_periods - sv.maxLT, 1) * FloatUnit)]
    /\ spc' = "ms_done"
    /\ UNCHANGED <<argVars, dpVars, tabuVars>>

\* bound of the base stock levels drawn, in halves
MaxBase == 15

\* the networks drawn: a chain of two, a chain of three, one node serving two
Networks ==
    {<<2, {<<0, 1>>}>>, <<3, {<<0, 1>>, <<1, 2>>}>>, <<3, {<<0, 1>>, <<0, 2>>}>>}

\* the allocation ratios drawn: 1, and two that are not powers of 1/2
Ratios == {FloatUnit, 3, FloatUnit - 3}

\* arguments of a call of multi_stage_base_stock_simulation: non-negative
\* demands and capacities, lead times >= 1, non-negative initial on-hand
\* inventory and allocation ratios of a node that sum to at most 1
InitMS ==
    /\ \E net \in Networks : n = net[1] /\ G = net[2]
    /\ ProcTime = <<>> /\ LTLB = <<>> /\ LTUB = <<>> /\ mu = <<>> /\ sigma = <<>> /\ h = <<>>
    /\ DPIdle
    /\ max_iter = 0 /\ TLLB0 = 0 /\ TLUB0 = 0 /\ seed = 0
    /\ TabuIdle
    /\ spc = "ms_call"
    /\ \E n_periods \in 2..MaxT :
       \E d \in {0, BigCapacity * FloatUnit} :
       \E capacity \in {FloatUnit, BigCapacity * FloatUnit} :
       \E LT \in 1..MaxLead :
       \E S0 \in {k * (FloatUnit \div 2) : k \in 0..MaxBase} :
       \E S1 \in {FloatUnit \div 2, FloatUnit} :
       \E p \in {FloatUnit, 2 * FloatUnit} :
       \E alpha \in [G -> Ratios] :
          LET S == [i \in Nodes |-> IF i = 0 THEN S0 ELSE S1]
              a == [n_periods |-> n_periods,
                    demand |-> [i \in {j \in Nodes : Successors(j) = {}} |->
                                  [t \in 0..(n_periods - 1) |-> d]],
                    capacity |-> [i \in Nodes |-> capacity],
                    LT |-> [i \in Nodes |-> LT],
                    b |-> [i \in Nodes |-> MaxBack * FloatUnit],
                    h |-> [i \in Nodes |-> MaxH * FloatUnit],
                    S |-> S,
                    phi |-> [e \in G |-> p],
                    alpha |-> alpha,
                    maxLT |-> 0, I |-> <<>>, T |-> <<>>, EI |-> <<>>,
                    production |-> <<>>, prod |-> <<>>, t |-> 0, total_cost |-> 0]
          IN  /\ \A i \in Nodes : InitialInventory(a, i, Successors(i), S[i]) >= 0
              /\ \A i \in Nodes :
                    SumOver([j \in Successors(i) |-> alpha[<<i, j>>]], Successors(i))
                       <= FloatUnit
              /\ sv = a

NextMS ==
    \/ MSStart
    \/ MSPeriod
    \/ MSReturn

SpecMS == InitMS /\ [][NextMS]_vars


(* ------------------------------- claims ------------------------------- *)
\* the undirected skeleton is a tree: connected, and every edge is a bridge
SkeletonIsTree ==
    /\ Reach(UndirectedEdges, {0}) = Nodes
    /\ \A e \in UndirectedEdges : Reach(UndirectedEdges \ {e}, {0}) # Nodes

\* no directed cycle: every non-empty set of nodes has a node without a
\* predecessor in the set
Acyclic ==
    \A S \in SUBSET Nodes :
        S # {} => \E v \in S : Predecessors(v) \cap S = {}

DPFinished == pc \in {"done", "IndexError"}

\* net replenishment time of node i under the guaranteed lead times L
NRTOf(L, i) ==
    Max2(SetMax({L[k] : k \in Predecessors(i)}, 0) + ProcTime[i] - L[i], 0)

RECURSIVE CostOf(_, _)
CostOf(L, i) ==
    IF i >= n THEN 0
    ELSE Cost(h[i], sigma[i], NRTOf(L, i)) + CostOf(L, i + 1)

Choices == {L \in [Nodes -> 0..MaxLT] : \A i \in Nodes : LTLB[i] <= L[i] /\ L[i] <= LTUB[i]}

\* the minimum of the total safety-stock cost over all choices of L
OptimalCost ==
    LET costs == {CostOf(L, 0) : L \in Choices}
    IN  CHOOSE x \in costs : \A y \in costs : x <= y

\* C1: on a tree-skeleton DAG with 0 <= LTLB <= LTUB and ProcTime >= 0,
\* dynamic_programming_for_SSA returns a total_cost equal to the minimum over
\* all L in [LTLB, LTUB] of the sum of h*z*sigma*sqrt(NRT).
C1_DPExact ==
    (SkeletonIsTree /\ Acyclic /\ DPFinished)
        => (pc = "done" /\ total_cost = OptimalCost)

\* C4: in the result of dynamic_programming_for_SSA every NRT[i] is >= 0 and
\* the backward pass leaves no Lstar[i] or LIstar[i] at the sentinel -1.
C4_DPNonNegative ==
    (SkeletonIsTree /\ Acyclic /\ DPFinished)
        => \A i \in Nodes : NRT[i] >= 0 /\ Lstar[i] # -1 /\ LIstar[i] # -1

RECURSIVE Recomputed(_, _)
Recomputed(nrt, i) ==
    IF i >= n THEN 0
    ELSE Cost(h[i], sigma[i], nrt[i]) + Recomputed(nrt, i + 1)

\* C5: for both solvers the total cost reported equals the sum of
\* h*z*sigma*sqrt(NRT[i]) recomputed from the returned NRT: best_cost goes with
\* best_NRT, and total_cost is the sum of SafetyCost[i, NRT[i]] with every
\* NRT[i] an index in [0, Lmax).
C5_RoundTrip ==
    /\ pc = "done"
        => /\ \A i \in Nodes : NRT[i] >= 0 /\ NRT[i] < Lmax
           /\ total_cost = Recomputed(NRT, 0)
    /\ tpc \in {"loop", "done"} => ts.best_cost = Recomputed(ts.best_NRT, 0)

\* C9: on a graph whose skeleton is not a tree, or that has a cycle,
\* dynamic_programming_for_SSA fails before any table is computed and returns
\* nothing.
C9_FailFast ==
    ~(SkeletonIsTree /\ Acyclic)
        => /\ pc \in {"call", "AssertionError"}
           /\ Lmax = 0 /\ SafetyCost = <<>> /\ MaxDemand = <<>>
           /\ c = <<>> /\ f = <<>> /\ g = <<>>
           /\ Lstar = <<>> /\ NRT = <<>> /\ total_cost = 0

C9_Witness == pc = "AssertionError" /\ ~SkeletonIsTree /\ Acyclic /\ n = MaxN

\* C2: on a tree-topology input with LTLB = 0 the total_cost of
\* dynamic_programming_for_SSA is at most the best_cost of tabu_search_for_SSA,
\* whatever max_iter and whatever the random draws.
C2_DPBelowTabu ==
    (SkeletonIsTree /\ Acyclic /\ (\A i \in Nodes : LTLB[i] = 0)
     /\ pc = "done" /\ tpc = "done")
        => total_cost <= ts.best_cost

\* C3: in tabu_search_for_SSA NRT[i] >= 0 at every node: in the initial
\* solution, in every neighbour evaluated, and in the returned best_NRT.
C3_TabuNonNegative ==
    tpc \in {"loop", "done"}
        => /\ \A i \in Nodes : ts.NRT[i] >= 0 /\ ts.best_NRT[i] >= 0
           /\ \A x \in DOMAIN ts.vNRT : \A i \in Nodes : ts.vNRT[x][i] >= 0

C3_Witness ==
    /\ tpc = "done"
    /\ \E x \in DOMAIN ts.vNRT : \E i \in Nodes :
        ts.vMaxLI[x][i] < ts.vMinLT[x][i] /\ ts.vNRT[x][i] = 0
    /\ \E i \in Nodes : ts.best_NRT[i] > 0

StarResult ==
    [best_cost  |-> Recomputed((0 :> 0 @@ 1 :> 9 @@ 2 :> 8), 0),
     best_sol   |-> (0 :> 0 @@ 1 :> 1 @@ 2 :> 1),
     best_NRT   |-> (0 :> 0 @@ 1 :> 9 @@ 2 :> 8),
     best_MaxLI |-> (0 :> 5 @@ 1 :> 9 @@ 2 :> 8),
     best_MinLT |-> (0 :> 5 @@ 1 :> 0 @@ 2 :> 0)]

\* C6: on the 3-node star scenario tabu_search_for_SSA returns
\* best_sol = [0,1,1], best_NRT = [0,9,8], best_MaxLI = [5,9,8],
\* best_MinLT = [5,0,0] and the cost of that solution, for every initial
\* vector b and every sequence of tenure draws.
C6_StarScenario ==
    (StarScenario /\ tpc = "done") => Returned(ts) = StarResult

\* the search started from b[0] = 1 and moved at least twice
C6_Witness ==
    /\ StarScenario /\ tpc = "done"
    /\ ts.rng.pos >= n + 2
    /\ ts.best_cost < ts.prev_cost

C8_GlobalRandomStateKept ==
    tpc = "done" => (ts.rng = ts.rng0 /\ ts2.rng = ts2.rng0)

\* C10: max_demand_compute fails before any table entry is produced when
\* some sigma[i] < 0 or some LTLB[i] > LTUB[i]; it never returns Lmax,
\* MaxDemand and SafetyCost for such an input.
C10_ConfigurationError ==
    (\E i \in Nodes : sigma[i] < 0 \/ LTLB[i] > LTUB[i])
        => (pc # "returned" /\ MaxDemand = <<>> /\ SafetyCost = <<>>)

\* C11: tabu_search_for_SSA terminates on every input: its main loop runs
\* exactly max_iter iterations and then returns, also when no node can be
\* flipped and when an iteration has no eligible move.
C11_Terminates ==
    /\ <>(tpc \in {"done", "AssertionError"})
    /\ [](tpc = "done" => (ts.iter_ = max_iter /\ ts2.iter_ = max_iter))

\* a call that returned after an iteration in which no move was eligible
C11_Witness ==
    /\ tpc = "done"
    /\ ts.iter_ = max_iter
    /\ ts.candidate # <<>>
    /\ ts.istar = -1

\* sum over the nodes of allocation * cost, as Python computes it
AllocationCost(solution) == SolutionCost(sv, solution, 1, 0)

\* C12: in InventoryOptimizationService.tabu_search_for_SSA the initial
\* solution, every solution accepted as current and the returned best solution
\* cost at most the budget, with every allocation >= 0.
C12_TabuWithinBudget ==
    spc \in {"tabu_loop", "tabu_done"}
        => /\ AllocationCost(sv.current_solution) <= sv.budget
           /\ AllocationCost(sv.best_solution) <= sv.budget
           /\ \A i \in 1..sv.n : sv.current_solution[i] >= 0 /\ sv.best_solution[i] >= 0

\* sum over the nodes of allocation * cost with the costs as given, exactly
\* (in 1/FloatUnit^2)
RECURSIVE RealCost(_, _)
RealCost(allocation, i) ==
    IF i > sv.n THEN 0
    ELSE allocation[i] * sv.cost[i] + RealCost(allocation, i + 1)

\* C13: InventoryOptimizationService.dynamic_programming_for_SSA returns an
\* allocation whose values are 0 or 1 and whose cost, with the costs as given
\* (not truncated), is at most the budget.
C13_DPWithinBudget ==
    spc = "dp_done"
        => /\ \A i \in 1..sv.n : sv.allocation[i] \in {0, FloatUnit}
           /\ RealCost(sv.allocation, 1) <= sv.budget * FloatUnit

\* the last order period of S at or before period k
LastOrder(S, k) == CHOOSE s \in S : s <= k /\ \A r \in S : r <= k => r <= s

RECURSIVE HoldingSum(_, _)
\* holding cost of a unit carried from period s to period k
HoldingSum(s, k) == IF s >= k THEN 0 ELSE sv.hc[s] + HoldingSum(s + 1, k)

RECURSIVE PlanCostFrom(_, _)
\* cost of the plan with order periods S, periods k..T-1
PlanCostFrom(S, k) ==
    IF k >= sv.T THEN 0
    ELSE (IF k \in S THEN sv.fixed[k] ELSE 0)
         + sv.demand[k] * (sv.variable[LastOrder(S, k)] + HoldingSum(LastOrder(S, k), k))
         + PlanCostFrom(S, k + 1)

OrderSets == {S \in SUBSET (0..(sv.T - 1)) : 0 \in S}

OptimalPlanCost ==
    LET costs == {PlanCostFrom(S, 0) : S \in OrderSets}
    IN  CHOOSE x \in costs : \A y \in costs : x <= y

\* the order periods of the returned orders (period 0 is always one)
ReturnedOrderPeriods == {0} \cup {t \in 0..(sv.T - 1) : sv.order[t] > 0}

RECURSIVE DemandSum(_, _)
\* demand of the periods lo..hi-1
DemandSum(lo, hi) == IF lo >= hi THEN 0 ELSE sv.demand[lo] + DemandSum(lo + 1, hi)

\* the first period after t in S, or T
NextIn(S, t) ==
    IF \E s \in S : s > t
    THEN CHOOSE s \in S : s > t /\ \A r \in S : r > t => s <= r
    ELSE sv.T

\* C14: wagner_whitin returns the optimal plan: total_cost is the minimum,
\* over the sets of order periods containing period 0, of fixed + variable +
\* holding cost, and the returned orders are a plan of that cost.
C14_WWOptimal ==
    spc = "ww_done"
        => /\ sv.total_cost = OptimalPlanCost
           /\ PlanCostFrom(ReturnedOrderPeriods, 0) = sv.total_cost
           /\ \A t \in ReturnedOrderPeriods :
                sv.order[t] = DemandSum(t, NextIn(ReturnedOrderPeriods, t))

\* a plan with two orders where ordering every period or only once costs more
C14_Witness ==
    /\ spc = "ww_done"
    /\ sv.T = MaxT
    /\ Cardinality(ReturnedOrderPeriods) = 2
    /\ PlanCostFrom({0}, 0) > sv.total_cost
    /\ PlanCostFrom(0..(sv.T - 1), 0) > sv.total_cost

RECURSIVE OrderSum(_)
\* the quantity ordered in periods t..T-1
OrderSum(t) == IF t >= sv.T THEN 0 ELSE sv.order[t] + OrderSum(t + 1)

PlanTotal == OrderSum(0)

SetupPeriods == {t \in 0..(sv.T - 1) : sv.setup[t] = 1}

\* C15: in the plan returned by wagner_whitin the quantity ordered in total is
\* the total demand, period 0 is a set-up period, the reconstruction loop
\* ends, and the order of a set-up period t is the demand from t up to the next
\* set-up period.
C15_WWPlan ==
    /\ <>(spc = "ww_done")
    /\ [](spc = "ww_done"
            => /\ DemandSum(0, sv.T) = PlanTotal
               /\ 0 \in SetupPeriods
               /\ \A t \in 0..(sv.T - 1) :
                    sv.order[t] = IF t \in SetupPeriods
                                  THEN DemandSum(t, NextIn(SetupPeriods, t)) ELSE 0)

\* a returned plan with a set-up after period 0 and a period served from stock
C15_Witness ==
    /\ spc = "ww_done"
    /\ sv.T = MaxT
    /\ Cardinality(SetupPeriods) = 2
    /\ \E t \in 0..(sv.T - 1) : t \notin SetupPeriods /\ sv.demand[t] > 0

\* a quotient <<numerator, denominator>> in [0, 1]
InUnitInterval(q) == q[2] > 0 /\ 0 <= q[1] /\ q[1] <= q[2]

\* C16: in simulate_inventory, with non-negative demands, initial inventory
\* and policy parameters, the inventory on hand is never negative after a
\* period, the quantity fulfilled in a period is at most its demand, the
\* returned service_level and stockout_frequency are in [0, 1], and
\* inventory_history has len(demands) entries, the first being
\* initial_inventory.
C16_SimulationBounds ==
    /\ [](spc \in {"sim_loop", "sim_done"} => sv.inventory >= 0)
    /\ [][spc = "sim_loop" /\ spc' = "sim_loop"
            => /\ sv'.total_fulfilled - sv.total_fulfilled <= sv.demands[sv.period + 1]
               /\ sv'.total_fulfilled - sv.total_fulfilled >= 0]_vars
    /\ [](spc = "sim_done"
            => /\ InUnitInterval(sv.service_level)
               /\ InUnitInterval(sv.stockout_frequency)
               /\ Len(sv.inventory_history) = Len(sv.demands)
               /\ (Len(sv.demands) > 0
                     => sv.inventory_history[1] = sv.initial_inventory))

\* a returned simulation with a stockout, an order that arrived and a partly
\* fulfilled demand
C16_Witness ==
    /\ spc = "sim_done"
    /\ Len(sv.demands) = MaxT
    /\ sv.stockouts > 0
    /\ sv.total_fulfilled > 0
    /\ sv.total_fulfilled < sv.total_demand
    /\ \E t \in 2..Len(sv.inventory_history) :
          sv.inventory_history[t] > sv.inventory_history[t - 1]


\* C17: max_demand_compute returns Lmax = (the largest MaxNRT over all the
\* nodes) + 1, so that ProcTime[v] < Lmax for every node v (stated for
\* arguments with sigma >= 0 and LTLB <= LTUB).
C17_LmaxOverAllNodes ==
    (/\ pc \in {"lmax", "returned"}
     /\ \A i \in Nodes : sigma[i] >= 0 /\ LTLB[i] <= LTUB[i])
        => /\ Lmax = LmaxOverAllNodes
           /\ \A v \in Nodes : ProcTime[v] < Lmax


\* C18: in the result of dynamic_programming_for_SSA every node has
\* LTLB[i] <= Lstar[i] <= min(LTUB[i], Lmax - 1), also a node whose Lstar was
\* set from a neighbour in the backward pass.
C18_LstarInBounds ==
    (SkeletonIsTree /\ Acyclic /\ pc = "done")
        => \A i \in Nodes :
              LTLB[i] <= Lstar[i] /\ Lstar[i] <= Min2(LTUB[i], Lmax - 1)


\* the least entry of the table c of the last node of dp_order
RootValue ==
    LET last == order[Len(order)]
    IN  SetMin({c[key] : key \in {x \in DOMAIN c : x[1] = last}}, BigM)

\* C19: the solution reconstructed by dynamic_programming_for_SSA is feasible
\* along every edge i->j, LIstar[j] = NRT[j] + Lstar[j] - ProcTime[j] >=
\* Lstar[i], and its cost is the optimal value in the table c of the last
\* node of dp_order.
C19_ReconstructionFeasible ==
    (SkeletonIsTree /\ Acyclic /\ pc = "done")
        => /\ \A e \in G :
                /\ LIstar[e[2]] = NRT[e[2]] + Lstar[e[2]] - ProcTime[e[2]]
                /\ LIstar[e[2]] >= Lstar[e[1]]
           /\ total_cost = RootValue


\* the nodes with no successor
DemandNodes == {i \in Nodes : \A e \in G : e[1] # i}

\* the bits in which two 0-1 vectors differ
DiffBits(a, b) == {i \in Nodes : a[i] # b[i]}

\* the neighbourhood B of the incumbent b: one row per non-demand node, each
\* row the flip of one bit of a non-demand node, no two rows of the same bit
OneFlipPerCandidate(B, b) ==
    /\ Cardinality(DOMAIN B) = Cardinality(Nodes \ DemandNodes)
    /\ \A x \in DOMAIN B :
          /\ Cardinality(DiffBits(B[x], b)) = 1
          /\ DiffBits(B[x], b) \cap DemandNodes = {}
    /\ \A x, y \in DOMAIN B : DiffBits(B[x], b) = DiffBits(B[y], b) => x = y

\* one iteration of a call with locals st, after it stn
IterationKeepsDemand(st, stn) ==
    stn.iter_ = st.iter_ + 1
        => /\ OneFlipPerCandidate(stn.B, st.b)
           /\ stn.istar # -1 => Cardinality(DiffBits(stn.b, st.b)) = 1
           /\ stn.istar = -1 => stn.b = st.b

\* C20: at every iteration of tabu_search_for_SSA the incumbent b has
\* b[i] = 1 for every demand node; the neighbourhood holds exactly one
\* single-bit flip per non-demand node and none of a demand node, and an
\* accepted move changes exactly one bit of the incumbent.
C20_DemandNodesStocked ==
    /\ [](tpc \in {"loop", "done"}
            => \A i \in DemandNodes : ts.b[i] = 1 /\ ts2.b[i] = 1)
    /\ [][tpc = "loop" /\ tpc' = "loop"
            => IterationKeepsDemand(ts, ts') /\ IterationKeepsDemand(ts2, ts2')]_vars

\* an accepted move in a graph with two non-demand nodes, after which a
\* non-demand node holds no inventory
C20_Witness ==
    /\ tpc = "loop"
    /\ ts.iter_ >= 1
    /\ ts.istar # -1
    /\ Cardinality(DOMAIN ts.B) >= 2
    /\ DemandNodes # {}
    /\ \E i \in Nodes \ DemandNodes : ts.b[i] = 0


\* the stock flags of a result agree with its net replenishment times
FlagsMatchNRT(st) ==
    \A i \in Nodes : (st.best_sol[i] = 1) <=> (st.best_NRT[i] > 0)

\* C21: in the result of tabu_search_for_SSA, best_sol[i] = 1 if and only if
\* best_NRT[i] > 0.00001: a node with NRT of about 0 has its bit forced to 0
\* and no node with bit 0 has a positive NRT.
C21_FlagIffPositiveNRT ==
    tpc = "done" => (FlagsMatchNRT(ts) /\ FlagsMatchNRT(ts2))

\* a result in which a demand node, whose bit is 1 in every solution of the
\* search, has NRT 0 and the bit 0, next to a node kept at 1
C21_Witness ==
    /\ tpc = "done"
    /\ \E i \in DemandNodes : ts.b[i] = 1 /\ ts.best_NRT[i] = 0 /\ ts.best_sol[i] = 0
    /\ \E j \in Nodes : ts.best_sol[j] = 1 /\ ts.best_NRT[j] > 0
    /\ \E k \in Nodes \ DemandNodes : ts.best_sol[k] = 0 /\ ts.best_NRT[k] = 0


\* candidate i is not tabu at the iteration the locals st are about to run
NonTabu(st, i) == st.iter_ >= st.TabuList[i]

\* the moves eligible for costs cst: the non-tabu ones and the aspirated ones
EligibleMoves(st, cst) ==
    {i \in DOMAIN cst : NonTabu(st, i) \/ cst[i] < st.best_cost}

\* what a move is compared on, in 1/LtmScale of a cost unit
Score(st, cst, i) ==
    IF NonTabu(st, i) THEN cst[i] * LtmScale + st.ltm_factor * st.ltm[i]
    ELSE cst[i] * LtmScale

\* the iteration from st to stn selected the lowest index among the eligible
\* moves of least score, and nothing when no move is eligible
SelectionRight(st, stn) ==
    stn.iter_ = st.iter_ + 1
        => IF EligibleMoves(st, stn.cost) = {} THEN stn.istar = -1
           ELSE /\ stn.istar \in EligibleMoves(st, stn.cost)
                /\ \A j \in EligibleMoves(st, stn.cost) :
                      \/ Score(st, stn.cost, stn.istar) < Score(st, stn.cost, j)
                      \/ /\ Score(st, stn.cost, stn.istar) = Score(st, stn.cost, j)
                         /\ stn.istar <= j

\* C22: at each iteration of tabu_search_for_SSA the eligible moves are the
\* non-tabu candidates and the tabu candidates whose cost is below best_cost;
\* the move selected has the least cost[i] + ltm_factor*ltm[i] (cost[i] when
\* aspirated), the lowest index among equals, and a tabu candidate whose cost
\* is not below best_cost is never selected.
C22_MoveSelection ==
    [][(tpc = "loop" /\ tpc' = "loop")
          => (SelectionRight(ts, ts') /\ SelectionRight(ts2, ts2'))]_vars

\* a candidate selected a second time while its tenure of the first selection
\* ran (no clearing of the tabu list in between): an aspirated move
C22_Witness ==
    /\ tpc = "loop"
    /\ ts.istar # -1
    /\ ts.ltm[ts.istar] = 2
    /\ ts.iter_ <= TLLB0
    /\ ts.TLLB = TLLB0
    /\ ts.best_cost = ts.cost[ts.istar]


\* the tabu list after the iteration from st to stn that selected a move
TenureRight(st, stn) ==
    (stn.iter_ = st.iter_ + 1 /\ stn.istar # -1)
        => /\ stn.TabuList[stn.istar] >= st.iter_ + stn.TLLB
           /\ stn.TabuList[stn.istar] <= st.iter_ + stn.TLUB
           /\ \A j \in DOMAIN st.TabuList :
                 j # stn.istar => stn.TabuList[j] = st.TabuList[j]
           /\ st.iter_ < st.TabuList[stn.istar] => stn.cost[stn.istar] < st.best_cost

\* C23: when candidate i is selected at iteration k, TabuList[i] becomes a
\* value in [k + TLLB, k + TLUB]; i is not selected at an iteration before
\* TabuList[i] unless its cost is below best_cost (or the list was cleared,
\* which sets TabuList[i] to 0); the tenures of the other candidates are left
\* as they were.
C23_TabuTenure ==
    [][(tpc = "loop" /\ tpc' = "loop")
          => (TenureRight(ts, ts') /\ TenureRight(ts2, ts2'))]_vars

\* a second move, given the longest tenure, made while the candidate of the
\* first move was tabu and kept its tenure
C23_Witness ==
    /\ tpc = "loop"
    /\ ts.iter_ = 2
    /\ ts.istar # -1
    /\ ts.TabuList[ts.istar] = 1 + ts.TLUB
    /\ ts.TLLB < ts.TLUB
    /\ \E j \in DOMAIN ts.TabuList : j # ts.istar /\ ts.TabuList[j] > 1


\* the iteration from st to stn found no eligible move
ClearRight(st, stn) ==
    (stn.iter_ = st.iter_ + 1 /\ stn.istar = -1)
        => /\ stn.TLLB = (IF st.TLLB - 1 > 1 THEN st.TLLB - 1 ELSE 1)
           /\ stn.TLUB = (IF st.TLUB - 1 > 2 THEN st.TLUB - 1 ELSE 2)
           /\ DOMAIN stn.TabuList = DOMAIN st.TabuList
           /\ \A i \in DOMAIN stn.TabuList : stn.TabuList[i] = 0
           /\ stn.b = st.b
           /\ stn.best_cost = st.best_cost
           /\ stn.best_sol = st.best_sol
           /\ stn.ltm = st.ltm
           /\ stn.ltm_factor = st.ltm_factor

\* C24: an iteration of tabu_search_for_SSA with no eligible move sets TLLB
\* to max(TLLB - 1, 1), TLUB to max(TLUB - 1, 2) and every tenure to 0, and
\* leaves b, best_cost, best_sol, ltm and ltm_factor unchanged; a call that
\* starts with 1 <= TLLB <= TLUB has 1 <= TLLB <= TLUB in every state.
C24_ClearKeepsBounds ==
    /\ []((tpc \in {"loop", "done"} /\ 1 <= TLLB0 /\ TLLB0 <= TLUB0)
            => /\ 1 <= ts.TLLB /\ ts.TLLB <= ts.TLUB
               /\ 1 <= ts2.TLLB /\ ts2.TLLB <= ts2.TLUB)
    /\ [][(tpc = "loop" /\ tpc' = "loop")
            => (ClearRight(ts, ts') /\ ClearRight(ts2, ts2'))]_vars

\* a second iteration without an eligible move: the tenures set by a move
\* were cleared and both bounds have come down twice, TLUB to its floor
C24_Witness ==
    /\ tpc = "loop"
    /\ ts.istar = -1
    /\ ts.candidate # <<>>
    /\ ts.TLLB = TLLB0 - 2
    /\ ts.TLUB = 2
    /\ \E i \in DOMAIN ts.ltm : ts.ltm[i] = 2


\* the iteration from st to stn raised no tenure bound; a move it accepted
\* differs from b_prev in one bit and went through the plateau test
BoundsNotRaised(st, stn) ==
    stn.iter_ = st.iter_ + 1
        => /\ stn.TLLB <= st.TLLB
           /\ stn.TLUB <= st.TLUB
           /\ stn.istar # -1
                => /\ Cardinality(DiffBits(stn.b, st.b_prev)) = 1
                   /\ stn.ltm_factor =
                        (IF st.prev_cost = stn.cost[stn.istar]
                         THEN st.ltm_factor + st.ltm_increase ELSE st.ltm_factor)

\* C28: TLLB and TLUB never increase during a run of tabu_search_for_SSA: at
\* the start of every iteration b equals b_prev and an accepted move differs
\* from b_prev in exactly one bit, so the 'same solution' branch is never
\* taken and the plateau test is made on every accepted move.
C28_TenureBoundsNeverIncrease ==
    /\ [](tpc = "loop" => (ts.b = ts.b_prev /\ ts2.b = ts2.b_prev))
    /\ [][(tpc = "loop" /\ tpc' = "loop")
            => (BoundsNotRaised(ts, ts') /\ BoundsNotRaised(ts2, ts2'))]_vars

\* a second accepted move of the same cost as the first: the plateau test
\* raised ltm_factor, the bounds are those of the call
C28_Witness ==
    /\ tpc = "loop"
    /\ ts.iter_ = 2
    /\ ts.istar # -1
    /\ ts.ltm_factor > 0
    /\ ts.TLLB = TLLB0 /\ ts.TLUB = TLUB0


\* the returned best_sol, evaluated again, gives the returned NRT and cost
ResultConsistent(st) ==
    LET e == Evaluate(st.best_sol, down_order, up_order)
    IN  e.NRT = st.best_NRT /\ e.cost = st.best_cost

\* C29: re-evaluating the post-processed best_sol returned by
\* tabu_search_for_SSA with the same forward and backward pass gives an NRT
\* vector equal to the returned best_NRT, and so the cost best_cost.
C29_ResultConsistent ==
    tpc = "done" => (ResultConsistent(ts) /\ ResultConsistent(ts2))

\* a result in which the post-processing cleared the bit of a node that
\* precedes another: the forward pass of the re-evaluation gives another MaxLI
\* than the one returned, and some node carries a positive NRT
C29_Witness ==
    /\ tpc = "done"
    /\ Evaluate(ts.best_sol, down_order, up_order).MaxLI # ts.best_MaxLI
    /\ \E k \in Nodes : ts.best_NRT[k] > 0


RECURSIVE RefProduction(_, _), RefI(_, _), RefT(_, _)
\* the recurrence for sample s: production_u = 0 for u < 0,
\* production_t = min(capacity, S + demand_t - I_t - T_t)
RefProduction(s, t) ==
    IF t < 0 THEN 0
    ELSE LET want == sv.S + sv.demand[s][t] - RefI(s, t) - RefT(s, t)
         IN  IF sv.capacity < want THEN sv.capacity ELSE want
\* I_0 = S, I_{t+1} = I_t - demand_t + production_{t-LT}
RefI(s, t) ==
    IF t = 0 THEN sv.S
    ELSE RefI(s, t - 1) - sv.demand[s][t - 1] + RefProduction(s, t - 1 - sv.LT)
\* T_0 = 0, T_{t+1} = T_t + production_t - production_{t-LT}
RefT(s, t) ==
    IF t = 0 THEN 0
    ELSE RefT(s, t - 1) + RefProduction(s, t - 1) - RefProduction(s, t - 1 - sv.LT)

\* C25: base_stock_simulation follows the recurrence for every lead time
\* LT >= 0: I_0 = S, T_0 = 0, production_u = 0 for u < 0, production_t =
\* min(capacity, S + demand_t - I_t - T_t), T_{t+1} = T_t + production_t -
\* production_{t-LT}, I_{t+1} = I_t - demand_t + production_{t-LT}.
C25_FollowsRecurrence ==
    /\ spc # "ZeroDivisionError"
    /\ spc \in {"bs_loop", "bs_done"}
          => \A s \in 1..sv.n_samples : \A t \in 0..sv.t :
                sv.I[s][t] = RefI(s, t) /\ sv.T[s][t] = RefT(s, t)


RECURSIVE RunSample(_, _, _, _)
\* the periods t, t+1, ... of sample s with base stock level S1
RunSample(s, S1, t, x) ==
    IF t >= sv.n_periods THEN x
    ELSE RunSample(s, S1, t + 1,
            SamplePeriod([LT |-> sv.LT, capacity |-> sv.capacity, S |-> S1,
                          demand_t |-> sv.demand[s][t]], t, x))

\* the inventory of every sample and period with base stock level S1
InventoryAt(S1) ==
    [s \in 1..sv.n_samples |->
        RunSample(s, S1, 0,
            [I |-> [t \in 0..sv.n_periods |-> IF t = 0 THEN S1 ELSE 0],
             T |-> [t \in 0..sv.n_periods |-> 0],
             production |-> [k \in 0..(sv.LT - 1) |-> 0]])]

\* line 242 without the division: -b * (sum of I < 0) + h * (sum of I > 0)
CostNumerator(run) ==
    LET entries == (1..sv.n_samples) \X (0..sv.n_periods)
        term == [e \in entries |->
                    IF run[e[1]].I[e[2]] < 0 THEN -1 * sv.b * run[e[1]].I[e[2]]
                    ELSE sv.h * run[e[1]].I[e[2]]]
    IN  SumOver(term, entries)

\* capacity is not the smaller argument of the minimum of line 234
NeverBinds(run, S1) ==
    \A s \in 1..sv.n_samples : \A t \in 0..(sv.n_periods - 1) :
        S1 + sv.demand[s][t] - run[s].I[t] - run[s].T[t] <= sv.capacity

\* no inventory value is on different sides of zero in the two runs
NoSignChange(r0, r1) ==
    \A s \in 1..sv.n_samples : \A t \in 0..sv.n_periods :
        /\ r0[s].I[t] < 0 => r1[s].I[t] <= 0
        /\ r0[s].I[t] >= 0 => r1[s].I[t] >= 0

\* C26: the gradient dC returned by base_stock_simulation is the pathwise
\* derivative of the total_cost it returns: for integer demands and S, with
\* capacity never binding and no inventory value changing sign between S
\* and S + 1, total_cost(S + 1) - total_cost(S) = dC (both over
\* n_samples * n_periods).
C26_GradientIsDerivative ==
    (/\ spc = "bs_done"
     /\ NeverBinds(InventoryAt(sv.S), sv.S)
     /\ NeverBinds(InventoryAt(sv.S + 1), sv.S + 1)
     /\ NoSignChange(InventoryAt(sv.S), InventoryAt(sv.S + 1)))
        => /\ sv.total_cost[1] = CostNumerator(InventoryAt(sv.S))
           /\ sv.total_cost[2] = sv.dC[2]
           /\ CostNumerator(InventoryAt(sv.S + 1)) - sv.total_cost[1] = sv.dC[1]


\* C30: in base_stock_simulation with non-negative demands, capacity >= 0
\* and LT >= 1, in every period reached I_t + T_t <= S, with equality for
\* t >= 1 while capacity has never bound; T_t >= 0 and T_t is the sum of the
\* last LT production decisions; every production decided is >= 0.
C30_InventoryPosition ==
    (spc \in {"bs_loop", "bs_done"} /\ sv.LT >= 1 /\ sv.capacity >= 0)
        => \A s \in 1..sv.n_samples :
              /\ \A t \in 0..sv.t :
                    /\ sv.I[s][t] + sv.T[s][t] <= sv.S
                    /\ sv.T[s][t] >= 0
                    /\ (t >= 1 /\ \A u \in 0..(t - 1) :
                                     sv.S + sv.demand[s][u] - sv.I[s][u] - sv.T[s][u]
                                        <= sv.capacity)
                          => sv.I[s][t] + sv.T[s][t] = sv.S
              /\ sv.T[s][sv.t] = SumOver(sv.production[s], 0..(sv.LT - 1))
              /\ \A k \in 0..(sv.LT - 1) : sv.production[s][k] >= 0

\* a returned run of three periods with lead time two in which capacity
\* bound, so that the inventory position fell below S and the inventory
\* below zero, with production in transit
C30_Witness ==
    /\ spc = "bs_done"
    /\ sv.n_periods = MaxT
    /\ sv.LT = 2
    /\ \E s \in 1..sv.n_samples :
          /\ sv.I[s][sv.t] + sv.T[s][sv.t] < sv.S
          /\ sv.I[s][sv.t] < 0
          /\ sv.T[s][sv.t] > 0
          /\ sv.production[s][0] # sv.production[s][1]

\* C27: in every period of multi_stage_base_stock_simulation the production
\* of every node i is at least 0, at most capacity[i], at most S[i] - EI[i]
\* and at most I[k, t] * alpha[k, i] / phi[k, i] for every predecessor k, and
\* the on-hand inventory of every node that is not a demand point stays >= 0
\* (the arguments satisfy the conditions of InitMS).
C27_ProductionWithinBounds ==
    (spc = "ms_loop" /\ sv.t > 0) =>
        LET t == sv.t - 1
        IN  /\ \A i \in Nodes :
                  /\ 0 <= sv.prod[i]
                  /\ sv.prod[i] <= sv.capacity[i]
                  /\ sv.prod[i] <= FSub(sv.S[i], sv.EI[i])
                  /\ \A k \in Predecessors(i) :
                        sv.prod[i] <= FDiv(FMul(sv.I[k][t], sv.alpha[<<k, i>>]),
                                           sv.phi[<<k, i>>])
            /\ \A i \in Nodes :
                  Successors(i) # {} => \A u \in 0..sv.t : sv.I[i][u] >= 0

====
